---- MODULE Spec2Model ----
(***************************************************************************)
(* A model of the GHB (global history buffer) prefetch predictor:          *)
(*   src/final_project/ca-final/src/mem/cache/prefetch/ghb_history.{hh,cc} *)
(* The history buffer, the two correlation indices, the pattern builder    *)
(* and the pattern table are modelled operation by operation.              *)
(***************************************************************************)
EXTENDS Integers, Sequences, FiniteSets, TLC

VARIABLES
    configured,         \* history variable: the arguments the constructor was given
    historySize,        \* configuration, fixed by the constructor
    patternLength,
    degree,
    usePC,
    pageBytes,
    confidenceThreshold,
    history,            \* std::vector<GHBEntry>, slots 0 .. historySize-1
    lastIndex,          \* per key kind: key value -> slot
    head,
    filled,
    sequenceCounter,
    patternTable,       \* DeltaPair -> PatternEntry
    log,                \* history variable: the accesses inserted since construction / reset
    trained,            \* history variable: the lists given to updatePatternTable since then
    lastCall,           \* the last operation called, its arguments and what it returned
    before,             \* history variable: the predictor's state when that call began
    policy,             \* the cache's replacement policy (Mockingjay), its entries, the time
    policyCall          \* history variable: the last call to the policy, the state it found

\* what no operation of the predictor changes: its configuration, and the replacement
\* policy, which the predictor has no part in
config == <<configured, historySize, patternLength, degree, usePC, pageBytes,
            confidenceThreshold, policy, policyCall>>
\* the predictor, which the replacement policy has no part in
predictor == <<configured, historySize, patternLength, degree, usePC, pageBytes,
               confidenceThreshold, history, lastIndex, head, filled, sequenceCounter,
               patternTable, log, trained, lastCall, before>>
buffer == <<history, lastIndex, head, filled, sequenceCounter>>
vars == <<config, buffer, patternTable, log, trained, lastCall, before>>

\* the state an operation finds: recorded in before by every operation but reset
Snapshot ==
    [history |-> history, lastIndex |-> lastIndex, head |-> head, filled |-> filled,
     sequenceCounter |-> sequenceCounter, patternTable |-> patternTable]

-----------------------------------------------------------------------------
(* Bounds of the model *)

\* accesses inserted between two resets, beyond the buffer's capacity
MaxWrap == 1
\* accesses inserted between two resets under the unit tests' configuration
MaxTestInserts == 3
\* deltas given to updatePatternTable between two resets, each call counting one more
MaxTrain == 8
\* length of a list given to findPatternMatch
MaxQuery == 3
\* as MaxTrain, for the predictor driven through all its operations
MaxHelperTrain == 8
\* the width of an address and of a delta, in bits: 64 in the program, scaled here
AddrBits == 10
\* accesses the prefetcher is notified of
MaxCycles == 5
\* accesses inserted into a predictor constructed with arbitrary arguments
MaxConfigInserts == 3
\* accesses of the stream the prefetcher is fed
MaxStream == 8
\* calls to the replacement policy
MaxCalls == 3
\* the simulated time at which the replacement policy is last called
MaxTick == 1
\* the width of a pattern's counters (uint32_t in the source), scaled down
CountBits == 4

-----------------------------------------------------------------------------
(* Program constants *)

PC == 0
Page == 1
NumCorrelationKeys == 2
CorrelationKey == 0 .. (NumCorrelationKeys - 1)

\* the unit tests' configuration (makeHistory)
TestHistorySize == 16
TestPatternLength == 4
TestPageBytes == 64
TestDegree == 2
TestConfidence == 50

\* Addr (uint64_t): the addresses are 0 .. AddrSpace - 1
AddrSpace == 2 ^ AddrBits

\* int64_t: the values a delta can hold
SignedRange == (-(AddrSpace \div 2)) .. ((AddrSpace \div 2) - 1)

\* static_cast<int64_t>(addr)
ToSigned(addr) == IF addr >= AddrSpace \div 2 THEN addr - AddrSpace ELSE addr

\* static_cast<Addr>(value)
ToAddr(value) == value % AddrSpace

\* unsigned: half the width of an address (32 bits in the program)
UnsignedSpace == 2 ^ (AddrBits \div 2)

\* static_cast<unsigned>(value)
ToUnsigned(value) == value % UnsignedSpace

\* the result of a signed operation whose exact result is x: x when an int64_t can
\* hold it; otherwise the operation overflows, which is undefined, and the result
\* may be any value
SignedOutcomes(x) == IF x \in SignedRange THEN {x} ELSE SignedRange

\* std::max (faulty variant first: no floor, the value is taken as given)
MaxUnclamped(a, b) == b

Max(a, b) == IF a >= b THEN a ELSE b
Min(a, b) == IF a <= b THEN a ELSE b

\* LinkInfo{}
DefaultLink == [prev |-> -1, prevSeq |-> 0, keyValue |-> 0, keyValid |-> FALSE]

\* GHBEntry{}
DefaultEntry == [addr |-> 0, links |-> [k \in CorrelationKey |-> DefaultLink], seq |-> 0]

EmptyMap == [x \in {} |-> 0]

\* indexMap[value] = slot
MapPut(m, k, v) == [x \in (DOMAIN m) \cup {k} |-> IF x = k THEN v ELSE m[x]]

\* indexMap.erase(it)
MapErase(m, k) == [x \in (DOMAIN m) \ {k} |-> m[x]]

-----------------------------------------------------------------------------
(* GHBHistory::GHBHistory *)

\* the predictor the member initialisers leave
Constructed(history_size, pattern_length, degree_, use_pc, page_bytes, confidence_threshold) ==
    /\ historySize = Max(1, history_size)
    /\ patternLength = Max(1, pattern_length)
    /\ degree = Max(1, degree_)
    /\ usePC = use_pc
    /\ pageBytes = Max(1, page_bytes)
    /\ confidenceThreshold = Min(100, confidence_threshold)
    /\ history = [s \in 0 .. (Max(1, history_size) - 1) |-> DefaultEntry]
    /\ lastIndex = [k \in CorrelationKey |-> EmptyMap]
    /\ head = 0
    /\ filled = FALSE
    /\ sequenceCounter = 1
    /\ patternTable = EmptyMap

\* the history variables of a predictor no operation was called on; the replacement
\* policy is left out where the predictor is driven
NothingCalled ==
    /\ log = << >>
    /\ trained = << >>
    /\ lastCall = [op |-> "construct"]
    /\ before = Snapshot
    /\ policy = << >>
    /\ policyCall = << >>

Construct(history_size, pattern_length, degree_, use_pc, page_bytes, confidence_threshold) ==
    /\ Constructed(history_size, pattern_length, degree_, use_pc, page_bytes,
                   confidence_threshold)
    /\ configured = [history_size |-> history_size, pattern_length |-> pattern_length,
                     degree |-> degree_, use_pc |-> use_pc, page_bytes |-> page_bytes,
                     confidence_threshold |-> confidence_threshold]
    /\ NothingCalled

\* bool empty() const
empty == historySize = 0

-----------------------------------------------------------------------------
(* GHBHistory::reset *)

\* faulty variant: the pattern table and the sequence counter are left as they are
ResetBufferOnly ==
    /\ history' = [s \in DOMAIN history |-> DefaultEntry]
    /\ lastIndex' = [k \in CorrelationKey |-> EmptyMap]
    /\ head' = 0
    /\ filled' = FALSE
    /\ log' = << >>
    /\ trained' = << >>
    /\ lastCall' = [op |-> "reset", wrapped |-> filled,
                    learned |-> patternTable # EmptyMap]
    /\ before' = [history |-> [s \in DOMAIN history |-> DefaultEntry],
                  lastIndex |-> [k \in CorrelationKey |-> EmptyMap],
                  head |-> 0, filled |-> FALSE, sequenceCounter |-> 1,
                  patternTable |-> EmptyMap]
    /\ UNCHANGED <<config, sequenceCounter, patternTable>>

Reset ==
    /\ history' = [s \in DOMAIN history |-> DefaultEntry]
    /\ lastIndex' = [k \in CorrelationKey |-> EmptyMap]
    /\ head' = 0
    /\ filled' = FALSE
    /\ sequenceCounter' = 1
    /\ patternTable' = EmptyMap
    /\ log' = << >>
    /\ trained' = << >>
    /\ lastCall' = [op |-> "reset", wrapped |-> filled,
                    learned |-> patternTable # EmptyMap]
    /\ before' = [history |-> [s \in DOMAIN history |-> DefaultEntry],
                  lastIndex |-> [k \in CorrelationKey |-> EmptyMap],
                  head |-> 0, filled |-> FALSE, sequenceCounter |-> 1,
                  patternTable |-> EmptyMap]
    /\ UNCHANGED config

-----------------------------------------------------------------------------
(* GHBHistory::removeIndexMappings, one iteration of its loop: key kind i *)

\* faulty variant: marks the link invalid but leaves the index mapping in place
RemoveIndexMappingNoErase(st, slot, i) ==
    LET victim == st.history[slot]
    IN  IF ~victim.links[i].keyValid
        THEN st
        ELSE [st EXCEPT !.history[slot].links[i].keyValid = FALSE]

\* faulty variant: erases the mapping of the victim's key value wherever it points
RemoveIndexMappingUnchecked(st, slot, i) ==
    LET victim == st.history[slot]
        indexMap == st.lastIndex[i]
        kv == victim.links[i].keyValue
    IN  IF ~victim.links[i].keyValid
        THEN st
        ELSE [history |-> [st.history EXCEPT ![slot].links[i].keyValid = FALSE],
              lastIndex |-> IF kv \in DOMAIN indexMap
                            THEN [st.lastIndex EXCEPT ![i] = MapErase(indexMap, kv)]
                            ELSE st.lastIndex]

RemoveIndexMapping(st, slot, i) ==
    LET victim == st.history[slot]
        indexMap == st.lastIndex[i]
        kv == victim.links[i].keyValue
    IN  IF ~victim.links[i].keyValid
        THEN st
        ELSE [history |-> [st.history EXCEPT ![slot].links[i].keyValid = FALSE],
              lastIndex |-> IF kv \in DOMAIN indexMap /\ indexMap[kv] = slot
                            THEN [st.lastIndex EXCEPT ![i] = MapErase(indexMap, kv)]
                            ELSE st.lastIndex]

removeIndexMappings(st, slot) ==
    RemoveIndexMapping(RemoveIndexMapping(st, slot, PC), slot, Page)

\* GHBHistory::evictIndex
evictIndex(st, slot) == removeIndexMappings(st, slot)

-----------------------------------------------------------------------------
(* GHBHistory::assignCorrelation *)

\* faulty variant: keeps an existing mapping instead of pointing it at the new slot
assignCorrelationNoRewire(st, slot, key, value) ==
    LET indexMap == st.lastIndex[key]
        found == value \in DOMAIN indexMap
        link == [prev |-> IF found THEN indexMap[value] ELSE -1,
                 prevSeq |-> IF found THEN st.history[indexMap[value]].seq ELSE 0,
                 keyValue |-> value,
                 keyValid |-> TRUE]
    IN  [history |-> [st.history EXCEPT ![slot].links[key] = link],
         lastIndex |-> IF found THEN st.lastIndex
                       ELSE [st.lastIndex EXCEPT ![key] = MapPut(indexMap, value, slot)]]

assignCorrelation(st, slot, key, value) ==
    LET indexMap == st.lastIndex[key]
        found == value \in DOMAIN indexMap
        link == [prev |-> IF found THEN indexMap[value] ELSE -1,
                 prevSeq |-> IF found THEN st.history[indexMap[value]].seq ELSE 0,
                 keyValue |-> value,
                 keyValid |-> TRUE]
    IN  [history |-> [st.history EXCEPT ![slot].links[key] = link],
         lastIndex |-> [st.lastIndex EXCEPT ![key] = MapPut(indexMap, value, slot)]]

\* GHBHistory::computePage (faulty variant first: the address itself as the key)
computePageIdentity(addr) == addr

computePage(addr) == addr \div pageBytes

-----------------------------------------------------------------------------
(* GHBHistory::insert *)

\* entry.seq = sequenceCounter++ : the counter's next value
\* (faulty variant first: the counter is not advanced)
NextSequenceStuck(c) == c

NextSequence(c) == c + 1

\* the else branch: entry.links[PC] = LinkInfo{}
\* (faulty variant first: the slot's old link is left as it is)
NoPCLinkKept(old) == old

NoPCLink(old) == DefaultLink

\* the buffer and the indices after insert(access) has run to its return
InsertBuffer(access) ==
    LET s0 == [history |-> history, lastIndex |-> lastIndex]
        s1 == IF filled THEN evictIndex(s0, head) ELSE s0
        slot == head
        s2 == [s1 EXCEPT !.history[slot].addr = access.addr,
                         !.history[slot].seq = sequenceCounter]
        s3 == IF usePC /\ access.hasPC
              THEN assignCorrelation(s2, slot, PC, access.pc)
              ELSE [s2 EXCEPT !.history[slot].links[PC] =
                                  NoPCLink(s2.history[slot].links[PC])]
    IN  assignCorrelation(s3, slot, Page, computePage(access.addr))

\* if (head == 0) filled = true : the flag after the head has advanced
\* (faulty variant first: the flag is set by every insert)
FilledAfterAlways(newHead, was) == TRUE

FilledAfter(newHead, was) == IF newHead = 0 THEN TRUE ELSE was

\* what insert(access) does to the predictor when it records the access
InsertRecorded(access) ==
    LET s4 == InsertBuffer(access)
        newHead == (head + 1) % historySize
    IN  /\ history' = s4.history
        /\ lastIndex' = s4.lastIndex
        /\ sequenceCounter' = NextSequence(sequenceCounter)
        /\ head' = newHead
        /\ filled' = FilledAfter(newHead, filled)
        /\ log' = Append(log, [addr |-> access.addr, hasPC |-> access.hasPC,
                               pc |-> access.pc, slot |-> head,
                               seq |-> sequenceCounter])

Insert(access) ==
    IF historySize = 0
    THEN /\ lastCall' = [op |-> "insert", ret |-> -1]
         /\ before' = Snapshot
         /\ UNCHANGED <<config, buffer, patternTable, log, trained>>
    ELSE /\ InsertRecorded(access)
         /\ lastCall' = [op |-> "insert", ret |-> head]
         /\ before' = Snapshot
         /\ UNCHANGED <<config, patternTable, trained>>

-----------------------------------------------------------------------------
(* GHBHistory::buildPattern *)

\* static_cast<int64_t>(entry.addr) - static_cast<int64_t>(prev_entry.addr)
\* (faulty variant first: the operands swapped)
DeltaSwapped(addr, prevAddr) == ToSigned(prevAddr) - ToSigned(addr)

Delta(addr, prevAddr) == ToSigned(addr) - ToSigned(prevAddr)

\* the stale-link test, negated: prev_entry.seq != link.prevSeq breaks the walk
\* (faulty variant first: no test)
SeqFreshUnchecked(prevEntrySeq, linkPrevSeq) == TRUE

SeqFresh(prevEntrySeq, linkPrevSeq) == prevEntrySeq = linkPrevSeq

\* the loop condition, negated: while (deltas.size() < patternLength)
\* (faulty variant first: <= for <)
LengthReachedOffByOne(n) == n > patternLength

LengthReached(n) == n >= patternLength

\* return !deltas.empty()
\* (faulty variant first: return true)
BuildSucceededAlways(deltas) == TRUE

BuildSucceeded(deltas) == deltas # << >>

\* the loop of buildPattern from slot current of the buffer entries; acc.deltas are
\* the deltas pushed so far and acc.visited the slots the walk has stood on (the start
\* slot first); the result is every outcome the loop may end with (one, unless a
\* subtraction overflows)
RECURSIVE Walk(_, _, _, _)
Walk(entries, current, key, acc) ==
    IF LengthReached(Len(acc.deltas))
    THEN {acc}
    ELSE LET entry == entries[current]
             link == entry.links[key]
         IN  IF link.prev < 0
             THEN {acc}
             ELSE LET prev_entry == entries[link.prev]
                  IN  IF ~SeqFresh(prev_entry.seq, link.prevSeq)
                      THEN {acc}
                      ELSE UNION {Walk(entries, link.prev, key,
                                       [deltas |-> Append(acc.deltas, d),
                                        visited |-> Append(acc.visited, link.prev)]) :
                                    d \in SignedOutcomes(Delta(entry.addr, prev_entry.addr))}

\* every result the call may return when the buffer holds entries
buildPatternOn(entries, index, key) ==
    IF index < 0 \/ index >= Cardinality(DOMAIN entries)
    THEN {[ok |-> FALSE, deltas |-> << >>, visited |-> << >>]}
    ELSE {[ok |-> BuildSucceeded(r.deltas), deltas |-> r.deltas, visited |-> r.visited] :
             r \in Walk(entries, index, key, [deltas |-> << >>, visited |-> <<index>>])}

buildPattern(index, key) == buildPatternOn(history, index, key)

BuildPattern(index, key) ==
    \E r \in buildPattern(index, key) :
        /\ lastCall' = [op |-> "buildPattern", index |-> index, key |-> key,
                        ret |-> r.ok, deltas |-> r.deltas, visited |-> r.visited]
        /\ before' = Snapshot
        /\ UNCHANGED <<config, buffer, patternTable, log, trained>>

-----------------------------------------------------------------------------
(* GHBHistory::updatePatternTable *)

\* the values of a counter: std::unordered_map<int64_t, uint32_t> counts; uint32_t total
CountSpace == 2 ^ CountBits

\* ++ on a counter
Increment(count) == (count + 1) % CountSpace

\* PatternEntry{}
DefaultPattern == [counts |-> EmptyMap, total |-> 0]

\* one iteration of the loop: entry = patternTable[key]; entry.counts[next]++; entry.total++
\* (faulty variant first: the entry is replaced by one that holds this triple only)
LearnTripleReplace(table, key, next) ==
    MapPut(table, key, [counts |-> MapPut(EmptyMap, next, 1), total |-> 1])

\* (faulty variant first: the count is set to 1 rather than incremented)
LearnTripleOnce(table, key, next) ==
    LET entry == IF key \in DOMAIN table THEN table[key] ELSE [counts |-> EmptyMap, total |-> 0]
    IN  MapPut(table, key, [counts |-> MapPut(entry.counts, next, 1),
                            total |-> entry.total + 1])

LearnTriple(table, key, next) ==
    LET entry == IF key \in DOMAIN table THEN table[key] ELSE DefaultPattern
        count == IF next \in DOMAIN entry.counts THEN entry.counts[next] ELSE 0
    IN  MapPut(table, key, [counts |-> MapPut(entry.counts, next, Increment(count)),
                            total |-> Increment(entry.total)])

\* the loop from index i (1-based here): for (i = 0; i + 2 < size; ++i)
RECURSIVE LearnFrom(_, _, _)
LearnFrom(table, chronological, i) ==
    IF i + 2 > Len(chronological)
    THEN table
    ELSE LearnFrom(LearnTriple(table, <<chronological[i], chronological[i + 1]>>,
                               chronological[i + 2]),
                   chronological, i + 1)

\* the pattern table the call leaves when it finds table
updatePatternTableOn(table, chronological) ==
    IF Len(chronological) < 3
    THEN table
    ELSE LearnFrom(table, chronological, 1)

updatePatternTable(chronological) == updatePatternTableOn(patternTable, chronological)

UpdatePatternTable(chronological) ==
    /\ patternTable' = updatePatternTable(chronological)
    /\ trained' = Append(trained, chronological)
    /\ lastCall' = [op |-> "updatePatternTable", chron |-> chronological]
    /\ before' = Snapshot
    /\ UNCHANGED <<config, buffer, log>>

-----------------------------------------------------------------------------
(* GHBHistory::findPatternMatch *)

\* DeltaPair key{chronological[size - 2], chronological.back()}
\* (faulty variant first: the first two deltas)
MatchKeyFromFront(chronological) == <<chronological[1], chronological[2]>>

MatchKey(chronological) ==
    <<chronological[Len(chronological) - 1], chronological[Len(chronological)]>>

\* candidates[0] after std::sort by count, descending: the order of candidates with
\* equal counts is that of the hash table's iteration and of an unstable sort, so
\* any next delta with the greatest count may come first
\* (faulty variant first: sorted ascending)
FirstCandidatesAscending(counts) ==
    {d \in DOMAIN counts : \A e \in DOMAIN counts : counts[e] >= counts[d]}

FirstCandidates(counts) ==
    {d \in DOMAIN counts : \A e \in DOMAIN counts : counts[e] <= counts[d]}

NoMatch == [ok |-> FALSE, predicted |-> << >>]

\* every result the call may return when the pattern table is table
findPatternMatchOn(table, chronological) ==
    IF Len(chronological) < 2
    THEN {NoMatch}
    ELSE LET key == MatchKey(chronological)
         IN  IF key \notin DOMAIN table
             THEN {NoMatch}
             ELSE LET entry == table[key]
                  IN  IF entry.total = 0
                      THEN {NoMatch}
                      ELSE IF DOMAIN entry.counts = {}
                           THEN {NoMatch}
                           ELSE {[ok |-> TRUE, predicted |-> <<d>>] :
                                    d \in FirstCandidates(entry.counts)}

findPatternMatch(chronological) == findPatternMatchOn(patternTable, chronological)

\* faulty variant: the lookup is patternTable[key] rather than patternTable.find(key),
\* which gives a key the table lacks a PatternEntry{}
FindPatternMatchInserting(chronological) ==
    \E r \in findPatternMatch(chronological) :
        /\ lastCall' = [op |-> "findPatternMatch", chron |-> chronological,
                        ret |-> r.ok, predicted |-> r.predicted]
        /\ before' = Snapshot
        /\ patternTable' =
              IF Len(chronological) >= 2 /\ MatchKey(chronological) \notin DOMAIN patternTable
              THEN MapPut(patternTable, MatchKey(chronological), DefaultPattern)
              ELSE patternTable
        /\ UNCHANGED <<config, buffer, log, trained>>

FindPatternMatch(chronological) ==
    \E r \in findPatternMatch(chronological) :
        /\ lastCall' = [op |-> "findPatternMatch", chron |-> chronological,
                        ret |-> r.ok, predicted |-> r.predicted]
        /\ before' = Snapshot
        /\ UNCHANGED <<config, buffer, patternTable, log, trained>>

-----------------------------------------------------------------------------
(* GHBHistory::fallbackPattern *)

\* int64_t delta = chronological.back()
\* (faulty variant first: the oldest delta)
FallbackDeltaFront(chronological) == chronological[1]

FallbackDelta(chronological) == chronological[Len(chronological)]

\* what the call leaves in predicted
fallbackPattern(chronological) ==
    IF chronological = << >>
    THEN << >>
    ELSE LET delta == FallbackDelta(chronological)
         IN  IF delta # 0 THEN <<delta>> ELSE << >>

FallbackPattern(chronological) ==
    /\ lastCall' = [op |-> "fallbackPattern", chron |-> chronological,
                    predicted |-> fallbackPattern(chronological)]
    /\ before' = Snapshot
    /\ UNCHANGED <<config, buffer, patternTable, log, trained>>

-----------------------------------------------------------------------------
(* GHBPrefetcher (ghb.hh, ghb.cc): the prefetcher that owns the predictor   *)
(* as historyHelper.  Its base class prefetch::Base gives it the block size *)
(* and page size of the cache, blockAddress and samePage; the page size it  *)
(* hands to the predictor is the one samePage uses, cast to unsigned.       *)

\* Base::blkSize
BlkSize == 2

\* Base::blockAddress: the address rounded down to its block
blockAddress(addr) == addr - (addr % BlkSize)

\* Base::samePage: both addresses rounded down to their page are equal, the page
\* size being the prefetcher's own (Base::pageBytes)
samePage(a, b) == (a \div configured.page_bytes) = (b \div configured.page_bytes)

\* historySize(std::max(1u, p.history_size))
\* (faulty variant first: a floor of two slots)
PrefetcherHistorySizeFloorTwo(history_size) == Max(2, history_size)

PrefetcherHistorySize(history_size) == Max(1, history_size)

\* GHBPrefetcher::GHBPrefetcher
GHBPrefetcher(p) ==
    /\ Constructed(PrefetcherHistorySize(p.history_size), Max(1, p.pattern_length),
                   Max(1, p.degree), p.use_pc, ToUnsigned(p.page_bytes),
                   Min(100, Max(0, p.confidence_threshold)))
    /\ configured = p
    /\ NothingCalled

\* std::vector<int64_t> chronological(deltas.rbegin(), deltas.rend())
Reverse(deltas) == [i \in 1 .. Len(deltas) |-> deltas[Len(deltas) + 1 - i]]

\* if (!samePage(block_addr, next_addr)) continue
\* (faulty variant first: no candidate is dropped)
CrossesPageNever(block_addr, next_addr) == FALSE

CrossesPage(block_addr, next_addr) == ~samePage(block_addr, next_addr)

\* the loop over predicted: every list of candidates it may leave in addresses (one,
\* unless the signed addition overflows)
RECURSIVE Candidates(_, _, _, _)
Candidates(block_addr, next_addr, predicted, addresses) ==
    IF predicted = << >>
    THEN {addresses}
    ELSE LET delta == Head(predicted)
         IN  IF delta = 0
             THEN Candidates(block_addr, next_addr, Tail(predicted), addresses)
             ELSE UNION {Candidates(block_addr, ToAddr(sum), Tail(predicted),
                                    IF CrossesPage(block_addr, ToAddr(sum))
                                    THEN addresses
                                    ELSE Append(addresses, ToAddr(sum))) :
                            sum \in SignedOutcomes(ToSigned(next_addr) + delta)}

\* if (!historyHelper.findPatternMatch(chronological, predicted))
\*     historyHelper.fallbackPattern(chronological, predicted)
\* (faulty variant first: the fallback overwrites the match)
PredictedByFallback(match, chronological) == fallbackPattern(chronological)

Predicted(match, chronological) ==
    IF match.ok THEN match.predicted ELSE fallbackPattern(chronological)

\* what a call that has not got beyond its first lines reports
CycleStart(pfi, block_addr, idx) ==
    [op |-> "calculatePrefetch", pfi |-> pfi, block_addr |-> block_addr, idx |-> idx,
     byPC |-> FALSE, hasPattern |-> FALSE, deltas |-> << >>, chronological |-> << >>,
     hit |-> FALSE, predicted |-> << >>, addresses |-> << >>]

\* the first build that succeeds: the chain of the instruction pointer, else the page's
\* (faulty variant first: the page's chain is tried first)
FirstPatternPageFirst(entries, idx) ==
    UNION {IF byPage.ok
           THEN {[byPC |-> FALSE, ok |-> TRUE, deltas |-> byPage.deltas]}
           ELSE {[byPC |-> byPC.ok, ok |-> byPC.ok, deltas |-> byPC.deltas] :
                    byPC \in buildPatternOn(entries, idx, PC)} :
              byPage \in buildPatternOn(entries, idx, Page)}

FirstPattern(entries, idx) ==
    UNION {IF byPC.ok
           THEN {[byPC |-> TRUE, ok |-> TRUE, deltas |-> byPC.deltas]}
           ELSE {[byPC |-> FALSE, ok |-> byPage.ok, deltas |-> byPage.deltas] :
                    byPage \in buildPatternOn(entries, idx, Page)} :
              byPC \in buildPatternOn(entries, idx, PC)}

\* the table findPatternMatch reads: the one updatePatternTable has just left
\* (faulty variant first: the one the call found)
QueriedTableStale(was, updated) == was

QueriedTable(was, updated) == updated

\* GHBPrefetcher::calculatePrefetch
calculatePrefetch(pfi) ==
    LET block_addr == blockAddress(pfi.addr)
        withPC == usePC /\ pfi.hasPC
        access == [addr |-> block_addr, hasPC |-> withPC,
                   pc |-> IF withPC THEN pfi.pc ELSE 0]
        idx == IF historySize = 0 THEN -1 ELSE head
        start == CycleStart(pfi, block_addr, idx)
    IN  /\ before' = Snapshot
        /\ UNCHANGED config
        /\ IF empty \/ idx < 0
           THEN /\ lastCall' = start
                /\ UNCHANGED <<buffer, patternTable, log, trained>>
           ELSE /\ InsertRecorded(access)
                /\ \E built \in FirstPattern(InsertBuffer(access).history, idx) :
                      IF ~built.ok
                      THEN /\ lastCall' = start
                           /\ UNCHANGED <<patternTable, trained>>
                      ELSE LET chronological == Reverse(built.deltas)
                               table == updatePatternTableOn(patternTable, chronological)
                           IN  /\ patternTable' = table
                               /\ trained' = Append(trained, chronological)
                               /\ \E match \in findPatternMatchOn(
                                                   QueriedTable(patternTable, table),
                                                   chronological) :
                                    LET predicted == Predicted(match, chronological)
                                    IN  \E addresses \in
                                            Candidates(block_addr, block_addr, predicted, << >>) :
                                          lastCall' =
                                            [start EXCEPT !.byPC = built.byPC,
                                                          !.hasPattern = TRUE,
                                                          !.deltas = built.deltas,
                                                          !.chronological = chronological,
                                                          !.hit = match.ok,
                                                          !.predicted = predicted,
                                                          !.addresses = addresses]

-----------------------------------------------------------------------------
(* The history buffer driven by arbitrary accesses: insert, buildPattern, reset *)

\* the arguments given to the constructor
HistorySizes == {0, 2, 3}
PatternLengths == {0, 2}
PageSizes == {128}

\* the accesses given to insert: an address, and an instruction pointer or none
Addrs == {0, 64, 128}
PCs == {1}
Accesses == [addr : Addrs, hasPC : {TRUE}, pc : PCs]
                \cup [addr : Addrs, hasPC : {FALSE}, pc : {0}]

Init ==
    \E history_size \in HistorySizes, pattern_length \in PatternLengths,
       use_pc \in BOOLEAN, page_bytes \in PageSizes :
        Construct(history_size, pattern_length, TestDegree, use_pc, page_bytes,
                  TestConfidence)

InsertAccess ==
    /\ Len(log) < historySize + MaxWrap
    /\ \E access \in Accesses : Insert(access)

\* buildPattern is const: a build right after a build returns what it would have
\* returned in its place, so builds are taken after the other operations only
BuildPatternCall ==
    /\ lastCall.op # "buildPattern"
    /\ \E index \in -1 .. historySize, key \in CorrelationKey : BuildPattern(index, key)

ResetCall == Reset

Next == InsertAccess \/ BuildPatternCall \/ ResetCall

Spec == Init /\ [][Next]_vars

-----------------------------------------------------------------------------
(* The unit tests' predictor (makeHistory): accesses, then a build from the *)
(* slot the last insert returned                                            *)

TestAddrs == {256, 264, 272, 320}
TestPCs == {256}
TestAccesses == [addr : TestAddrs, hasPC : {TRUE}, pc : TestPCs]
                    \cup [addr : TestAddrs, hasPC : {FALSE}, pc : {0}]

TestInit ==
    \E use_pc \in BOOLEAN :
        Construct(TestHistorySize, TestPatternLength, TestDegree, use_pc, TestPageBytes,
                  TestConfidence)

TestInsert ==
    /\ Len(log) < MaxTestInserts
    /\ \E access \in TestAccesses : Insert(access)

TestBuild ==
    /\ lastCall.op = "insert"
    /\ \E key \in CorrelationKey : BuildPattern(lastCall.ret, key)

TestNext == TestInsert \/ TestBuild \/ ResetCall

SpecTest == TestInit /\ [][TestNext]_vars

-----------------------------------------------------------------------------
(* The pattern table driven by arbitrary delta lists: updatePatternTable,   *)
(* findPatternMatch, reset                                                  *)

TrainDeltas == {32, 64}

\* the lists over S of length at most n
Lists(S, n) == UNION {[1 .. k -> S] : k \in 0 .. n}

\* what the updatePatternTable calls since construction / reset were given
RECURSIVE TrainCost(_)
TrainCost(lists) ==
    IF lists = << >> THEN 0 ELSE Len(Head(lists)) + 1 + TrainCost(Tail(lists))

TableInit ==
    Construct(TestHistorySize, TestPatternLength, TestDegree, TRUE, TestPageBytes,
              TestConfidence)

UpdateCall ==
    \E chronological \in Lists(TrainDeltas, MaxTrain - TrainCost(trained) - 1) :
        UpdatePatternTable(chronological)

\* findPatternMatch and fallbackPattern are const: as for buildPattern, a query right
\* after a query adds no state that a query in its place does not reach
Queries == {"findPatternMatch", "fallbackPattern"}

FindCall ==
    /\ lastCall.op \notin Queries
    /\ \E chronological \in Lists(TrainDeltas, MaxQuery) : FindPatternMatch(chronological)

\* the lists given to fallbackPattern: the unit test's, and lists with zero deltas
FallbackDeltas == {0, 4}
FallbackLists == Lists(FallbackDeltas, MaxQuery) \cup {<<16, 8, 4>>, <<4, 8, 16>>}

FallbackCall ==
    /\ lastCall.op \notin Queries
    /\ \E chronological \in FallbackLists : FallbackPattern(chronological)

TableNext == UpdateCall \/ FindCall \/ FallbackCall \/ ResetCall

SpecTable == TableInit /\ [][TableNext]_vars

-----------------------------------------------------------------------------
(* The prefetcher fed addresses on both sides of the middle of the address  *)
(* space, where the signed value of an address changes sign: two accesses   *)
(* under one instruction pointer                                            *)

\* block addresses next to 0, to the middle and to the top of the address space
WideInfo ==
    [addr : {0, (AddrSpace \div 2) - 2, AddrSpace \div 2, AddrSpace - 2},
     hasPC : {TRUE}, pc : PCs]

WideInit ==
    GHBPrefetcher([history_size |-> 2, pattern_length |-> 1, degree |-> TestDegree,
                   use_pc |-> TRUE, page_bytes |-> 8,
                   confidence_threshold |-> TestConfidence])

WideAccess ==
    /\ Len(log) < historySize
    /\ \E pfi \in WideInfo : calculatePrefetch(pfi)

SpecWide == WideInit /\ [][WideAccess]_vars

-----------------------------------------------------------------------------
(* The pattern table trained under one key until its counters wrap          *)

CountUpdate ==
    /\ Len(trained) < CountSpace \div 4 + 3
    /\ \E chronological \in {<<32, 32, 32, 32, 32, 32>>, <<32, 32, 64>>} :
          UpdatePatternTable(chronological)

CountFind ==
    /\ lastCall.op \notin Queries
    /\ FindPatternMatch(<<32, 32>>)

CountNext == CountUpdate \/ CountFind

SpecCount == TableInit /\ [][CountNext]_vars

-----------------------------------------------------------------------------
(* The whole helper: every public operation of GHBHistory, in any order, on *)
(* a predictor of two slots                                                 *)

HelperAccesses == [addr : {0, 64}, hasPC : {TRUE}, pc : PCs]

HelperInit == Construct(2, 2, TestDegree, TRUE, 128, TestConfidence)

HelperInsert ==
    /\ Len(log) < historySize + MaxWrap
    /\ \E access \in HelperAccesses : Insert(access)

\* the const operations: taken after the others only, as above
HelperQueries == {"buildPattern", "findPatternMatch", "fallbackPattern"}

HelperBuild ==
    /\ lastCall.op \notin HelperQueries
    /\ \E index \in 0 .. (historySize - 1), key \in CorrelationKey : BuildPattern(index, key)

\* the lists given to updatePatternTable here: of 2 deltas (too short to learn from)
\* or of 3
HelperLists == {l \in Lists(TrainDeltas, 3) : Len(l) >= 2}

HelperUpdate ==
    \E chronological \in HelperLists :
        /\ TrainCost(trained) + Len(chronological) + 1 <= MaxHelperTrain
        /\ UpdatePatternTable(chronological)

HelperFind ==
    /\ lastCall.op \notin HelperQueries
    /\ \E chronological \in Lists(TrainDeltas, 2) : FindPatternMatch(chronological)

HelperFallback ==
    /\ lastCall.op \notin HelperQueries
    /\ \E chronological \in {<< >>, <<0>>, <<64>>, <<32, 64>>} :
          FallbackPattern(chronological)

HelperNext ==
    \/ HelperInsert \/ HelperBuild \/ HelperUpdate \/ HelperFind \/ HelperFallback
    \/ ResetCall

SpecHelper == HelperInit /\ [][HelperNext]_vars

-----------------------------------------------------------------------------
(* The prefetcher driven by the accesses of the cache: one calculatePrefetch *)
(* per access                                                                *)

\* the parameters: a history of no slot or of four, chains of three deltas, pages of
\* four blocks
PrefetchParams ==
    [history_size : {0, 4}, pattern_length : {3}, degree : {TestDegree}, use_pc : {TRUE},
     page_bytes : {8}, confidence_threshold : {TestConfidence}]

\* the accesses: in the lowest page, with and without an instruction pointer and one
\* of them not block aligned; in the highest page; and, without an instruction
\* pointer, in the page below the middle of the address space, where the signed value
\* of an address is greatest
PrefetchInfo ==
    [addr : {0, 3, AddrSpace - 2}, hasPC : {TRUE}, pc : PCs]
        \cup [addr : {0, (AddrSpace \div 2) - 4, (AddrSpace \div 2) - 2},
              hasPC : {FALSE}, pc : {0}]

PrefetchInit == \E p \in PrefetchParams : GHBPrefetcher(p)

NotifyWithPC ==
    /\ Len(log) < MaxCycles
    /\ \E pfi \in PrefetchInfo : pfi.hasPC /\ calculatePrefetch(pfi)

NotifyWithoutPC ==
    /\ Len(log) < MaxCycles
    /\ \E pfi \in PrefetchInfo : ~pfi.hasPC /\ calculatePrefetch(pfi)

PrefetchNext == NotifyWithPC \/ NotifyWithoutPC

SpecPrefetch == PrefetchInit /\ [][PrefetchNext]_vars

-----------------------------------------------------------------------------
(* The prefetcher fed one stream: accesses under one instruction pointer,   *)
(* each a stride away from the one before                                   *)

\* a history of two slots or of five, chains of four deltas, pages of four blocks or
\* of thirty-two
StreamParams ==
    [history_size : {2, 5, 6}, pattern_length : {4}, degree : {TestDegree}, use_pc : {TRUE},
     page_bytes : {8, 64}, confidence_threshold : {TestConfidence}]

Strides == {-2, 2, 4}
StreamStart == 16

StreamInit == \E p \in StreamParams : GHBPrefetcher(p)

StreamAccess ==
    /\ Len(log) < MaxStream
    /\ \E stride \in Strides :
          calculatePrefetch([addr |-> IF log = << >> THEN StreamStart
                                     ELSE log[Len(log)].addr + stride,
                            hasPC |-> TRUE, pc |-> 1])

SpecStream == StreamInit /\ [][StreamAccess]_vars

-----------------------------------------------------------------------------
(* The constructors given every kind of argument, and inserts into the      *)
(* predictor they leave                                                     *)


\* an argument of a constructor: zero, or a value within range
ConfigFloors == {0, 2}

\* the parameters of GHBPrefetcher::GHBPrefetcher: as above, but for the page size,
\* which is the cache's, and is 0 when cast to unsigned if it is 2^32
ConfigParams ==
    [history_size : ConfigFloors, pattern_length : ConfigFloors, degree : ConfigFloors,
     use_pc : {TRUE}, page_bytes : {8, UnsignedSpace},
     confidence_threshold : {50, 101}]

ConfigInit ==
    \/ \E history_size \in {0, 1, 2}, pattern_length \in ConfigFloors,
          degree_ \in ConfigFloors, page_bytes \in {0, 8},
          confidence_threshold \in {50, 101} :
            Construct(history_size, pattern_length, degree_, TRUE, page_bytes,
                      confidence_threshold)
    \/ \E p \in ConfigParams : GHBPrefetcher(p)

ConfigInsert ==
    /\ Len(log) < MaxConfigInserts
    /\ \E access \in [addr : {0, 9}, hasPC : {TRUE}, pc : PCs] : Insert(access)

SpecConfig == ConfigInit /\ [][ConfigInsert]_vars

-----------------------------------------------------------------------------
(* Mockingjay (replacement_policies/mockingjay.{hh,cc}): the replacement    *)
(* policy of the cache.  policy holds the members of the Mockingjay object, *)
(* the replacement data of the cache's entries (entries) and the simulated  *)
(* time (curTick).  A double v of the program is the integer v * Scale,     *)
(* and a product is rounded down to a multiple of 1 / Scale.                *)

Scale == 1000

Mul(a, b) == (a * b) \div Scale

\* std::numeric_limits<double>::max()
DoubleMax == 2 ^ 30

\* std::log(1.0 + x) / std::log(1.0 + m), given log(1 + m); x is at most 10 here
LogRatio(x, logM) ==
    (<<0, 693, 1099, 1386, 1609, 1792, 1946, 2079, 2197, 2303, 2398>>[x + 1] * Scale)
        \div logM

computePcHashFeature(pc) == ((pc % 1024) * Scale) \div 1024

computeAgeFeature(insertTick, currentTick) ==
    IF insertTick = 0 \/ currentTick <= insertTick
    THEN 0
    ELSE Min(LogRatio(currentTick - insertTick, 20723), Scale)

computeAccessCountFeature(count) == LogRatio(count, 6909)

computeReuseDistanceFeature(distance) == LogRatio(distance, 9210)

\* the four features of an entry: pc_hash, age, access_count, reuse_distance
Features(data, currentTick) ==
    <<computePcHashFeature(data.pc),
      computeAgeFeature(data.insertTick, currentTick),
      computeAccessCountFeature(data.accessCount),
      computeReuseDistanceFeature(data.reuseDistance)>>

\* the linear model: the weighted sum of the features, plus the bias
LinearModel(p, features) ==
    Mul(p.weightPcHash, features[1]) + Mul(p.weightAge, features[2])
        + Mul(p.weightAccessCount, features[3])
        + Mul(p.weightReuseDistance, features[4]) + p.bias

computePriority(p, data) == LinearModel(p, Features(data, p.curTick))

updateWeights(p, entry, target) ==
    IF ~p.enableOnlineLearning
    THEN p
    ELSE LET error == LinearModel(p, entry.features) - target
             step == Mul(p.learningRate, error)
         IN  [p EXCEPT !.weightPcHash = @ - Mul(step, entry.features[1]),
                       !.weightAge = @ - Mul(step, entry.features[2]),
                       !.weightAccessCount = @ - Mul(step, entry.features[3]),
                       !.weightReuseDistance = @ - Mul(step, entry.features[4]),
                       !.bias = @ - step]

EVICT_TABLE_SIZE == 64

\* size_t index = (pc / 64) % EVICT_TABLE_SIZE
EvictIndex(pc) == (pc \div 64) % EVICT_TABLE_SIZE

\* EvictedEntry(), as the constructor leaves it: valid = false
EvictedEntry == [pc |-> 0, evictTick |-> 0, features |-> <<0, 0, 0, 0>>, valid |-> FALSE]

\* evictTable[index]: the table holds the entries written so far, every other entry
\* of the array being as constructed
Evicted(p, index) ==
    IF index \in DOMAIN p.evictTable THEN p.evictTable[index] ELSE EvictedEntry

trackEviction(p, pc, evictTick, features) ==
    IF ~p.enableOnlineLearning
    THEN p
    ELSE [p EXCEPT !.evictTable =
                       MapPut(@, EvictIndex(pc),
                              [pc |-> pc, evictTick |-> evictTick, features |-> features,
                               valid |-> TRUE])]

\* faulty variant: the entry stays valid after the update that used it
checkEvictedReuseKeepsValid(p, pc, currentTick) ==
    IF ~p.enableOnlineLearning
    THEN p
    ELSE LET index == EvictIndex(pc)
             evicted == Evicted(p, index)
         IN  IF evicted.valid /\ evicted.pc = pc
             THEN LET reuseTime == currentTick - evicted.evictTick
                      target == LogRatio(reuseTime, 13816) - (Scale \div 2)
                  IN  updateWeights(p, evicted, target)
             ELSE p

checkEvictedReuse(p, pc, currentTick) ==
    IF ~p.enableOnlineLearning
    THEN p
    ELSE LET index == EvictIndex(pc)
             evicted == Evicted(p, index)
         IN  IF evicted.valid /\ evicted.pc = pc
             THEN LET reuseTime == currentTick - evicted.evictTick
                      target == LogRatio(reuseTime, 13816) - (Scale \div 2)
                  IN  [updateWeights(p, evicted, target)
                          EXCEPT !.evictTable[index].valid = FALSE]
             ELSE p

\* MockingjayReplData(), what instantiateEntry returns
instantiateEntry ==
    [pc |-> 0, insertTick |-> 0, lastTouchTick |-> 0, accessCount |-> 0,
     reuseDistance |-> 0, lastAccessCounter |-> 0, priority |-> 0]

\* the entries whose replacement data the cache holds
Ways == {1, 2}

\* Mockingjay::Mockingjay, with no weights file; the entries are instantiated, and
\* time starts
Mockingjay(params) ==
    [weightPcHash |-> 250, weightAge |-> 350, weightAccessCount |-> -300,
     weightReuseDistance |-> 400, bias |-> 0,
     learningRate |-> params.learning_rate,
     enableOnlineLearning |-> params.enable_online_learning,
     evictTable |-> EmptyMap,
     globalAccessCounter |-> 0,
     entries |-> [way \in Ways |-> instantiateEntry],
     curTick |-> 0]

\* invalidate(replacement_data)
invalidate(p, way) ==
    [p EXCEPT !.entries[way] = [instantiateEntry EXCEPT !.priority = DoubleMax]]

\* the reuse distance touch leaves: if (lastAccessCounter > 0) reuseDistance = ...
ReuseDistance(data, globalAccessCounter) ==
    IF data.lastAccessCounter > 0
    THEN globalAccessCounter - data.lastAccessCounter
    ELSE data.reuseDistance

\* touch(replacement_data, pkt)
touch(p, way, pkt) ==
    LET data == p.entries[way]
        touched == [data EXCEPT !.accessCount = @ + 1,
                                !.reuseDistance = ReuseDistance(data, p.globalAccessCounter),
                                !.lastTouchTick = p.curTick,
                                !.lastAccessCounter = p.globalAccessCounter,
                                !.pc = IF pkt.hasPC THEN pkt.pc ELSE @]
        counted == [p EXCEPT !.globalAccessCounter = @ + 1]
        checked == IF pkt.hasPC THEN checkEvictedReuse(counted, pkt.pc, p.curTick)
                   ELSE counted
    IN  [checked EXCEPT !.entries[way] =
                            [touched EXCEPT !.priority = computePriority(checked, touched)]]

\* touch(replacement_data) const
touchConst(p, way) ==
    LET touched == [p.entries[way] EXCEPT !.accessCount = @ + 1,
                                          !.lastTouchTick = p.curTick]
    IN  [p EXCEPT !.entries[way] =
                      [touched EXCEPT !.priority = computePriority(p, touched)]]

\* reset(replacement_data, pkt)
reset(p, way, pkt) ==
    LET data == p.entries[way]
        fresh == [data EXCEPT !.insertTick = p.curTick,
                              !.lastTouchTick = p.curTick,
                              !.accessCount = 0,
                              !.reuseDistance = 0,
                              !.lastAccessCounter = p.globalAccessCounter,
                              !.pc = IF pkt.hasPC THEN pkt.pc ELSE 0]
        counted == [p EXCEPT !.globalAccessCounter = @ + 1]
        checked == IF pkt.hasPC THEN checkEvictedReuse(counted, pkt.pc, p.curTick)
                   ELSE counted
    IN  [checked EXCEPT !.entries[way] =
                            [fresh EXCEPT !.priority = computePriority(checked, fresh)]]

\* reset(replacement_data) const
resetConst(p, way) ==
    LET fresh == [p.entries[way] EXCEPT !.insertTick = p.curTick,
                                        !.lastTouchTick = p.curTick,
                                        !.accessCount = 0,
                                        !.pc = 0]
    IN  [p EXCEPT !.entries[way] =
                      [fresh EXCEPT !.priority = computePriority(p, fresh)]]

\* the second pass of getVictim from candidate i on: the victim so far is replaced by
\* a candidate of strictly higher priority
RECURSIVE HighestPriority(_, _, _, _)
HighestPriority(entries, candidates, i, victim) ==
    IF i > Len(candidates)
    THEN victim
    ELSE HighestPriority(entries, candidates, i + 1,
                         IF entries[candidates[i]].priority > entries[victim].priority
                         THEN candidates[i] ELSE victim)

\* getVictim(candidates): the policy it leaves, and the victim it returns
getVictim(p, candidates) ==
    LET among == {candidates[i] : i \in 1 .. Len(candidates)}
        recomputed == [p EXCEPT !.entries =
                          [way \in Ways |->
                              IF way \in among
                              THEN [p.entries[way] EXCEPT
                                       !.priority = computePriority(p, p.entries[way])]
                              ELSE p.entries[way]]]
        victim == HighestPriority(recomputed.entries, candidates, 1, candidates[1])
        victim_data == recomputed.entries[victim]
    IN  [policy |-> IF p.enableOnlineLearning
                    THEN trackEviction(recomputed, victim_data.pc, p.curTick,
                                       Features(victim_data, p.curTick))
                    ELSE recomputed,
         victim |-> victim]

-----------------------------------------------------------------------------
(* The replacement policy driven by the cache: its entries are reset,      *)
(* touched and invalidated and victims are asked for, in any order, while  *)
(* time passes                                                             *)

\* the packets: with an instruction pointer or without
Packets == [hasPC : {TRUE}, pc : {64}] \cup [hasPC : {FALSE}, pc : {0}]

\* the candidate lists: one entry, or both in either order
CandidateLists == {<<1>>, <<1, 2>>, <<2, 1>>}

\* what a call leaves in the history variable, invalidated being the entries
\* invalidated and not reset or touched since; accessed gives, for each entry, the
\* value the global access counter had at the entry's last reset or touch with a
\* packet since it was instantiated or invalidated, and -1 when there was none;
\* previous is that value as a reset or touch with a packet found it
PolicyCalled(call, invalidated) ==
    /\ policyCall.calls < MaxCalls
    /\ policyCall' = [call |-> call, invalidated |-> invalidated,
                      calls |-> policyCall.calls + 1, was |-> policy,
                      previous |-> IF call.op \in {"touch", "reset"}
                                   THEN policyCall.accessed[call.way] ELSE -1,
                      accessed |->
                          IF call.op \in {"touch", "reset"}
                          THEN [policyCall.accessed EXCEPT
                                   ![call.way] = policy.globalAccessCounter]
                          ELSE IF call.op = "invalidate"
                          THEN [policyCall.accessed EXCEPT ![call.way] = -1]
                          ELSE policyCall.accessed]

PolicyInit ==
    /\ \E enable \in BOOLEAN :
          policy = Mockingjay([learning_rate |-> 100, enable_online_learning |-> enable])
    /\ policyCall = [call |-> [op |-> "construct"], invalidated |-> {}, calls |-> 0,
                     was |-> << >>, previous |-> -1,
                     accessed |-> [way \in Ways |-> -1]]
    /\ Constructed(1, 1, 1, FALSE, 1, 0)
    /\ configured = [history_size |-> 1, pattern_length |-> 1, degree |-> 1,
                     use_pc |-> FALSE, page_bytes |-> 1, confidence_threshold |-> 0]
    /\ log = << >> /\ trained = << >>
    /\ lastCall = [op |-> "construct"]
    /\ before = Snapshot

PolicyTouch ==
    /\ \E way \in Ways, pkt \in Packets :
          /\ policy' = touch(policy, way, pkt)
          /\ PolicyCalled([op |-> "touch", way |-> way, pkt |-> pkt],
                          policyCall.invalidated \ {way})
    /\ UNCHANGED predictor

PolicyTouchConst ==
    /\ \E way \in Ways :
          /\ policy' = touchConst(policy, way)
          /\ PolicyCalled([op |-> "touchConst", way |-> way],
                          policyCall.invalidated \ {way})
    /\ UNCHANGED predictor

PolicyReset ==
    /\ \E way \in Ways, pkt \in Packets :
          /\ policy' = reset(policy, way, pkt)
          /\ PolicyCalled([op |-> "reset", way |-> way, pkt |-> pkt],
                          policyCall.invalidated \ {way})
    /\ UNCHANGED predictor

PolicyResetConst ==
    /\ \E way \in Ways :
          /\ policy' = resetConst(policy, way)
          /\ PolicyCalled([op |-> "resetConst", way |-> way],
                          policyCall.invalidated \ {way})
    /\ UNCHANGED predictor

PolicyInvalidate ==
    /\ \E way \in Ways :
          /\ policy' = invalidate(policy, way)
          /\ PolicyCalled([op |-> "invalidate", way |-> way],
                          policyCall.invalidated \cup {way})
    /\ UNCHANGED predictor

PolicyGetVictim ==
    /\ \E candidates \in CandidateLists :
          LET r == getVictim(policy, candidates)
          IN  /\ policy' = r.policy
              /\ PolicyCalled([op |-> "getVictim", candidates |-> candidates,
                                victim |-> r.victim],
                               policyCall.invalidated)
    /\ UNCHANGED predictor

\* simulated time passes between two calls
PolicyTick ==
    /\ policy.curTick < MaxTick
    /\ policy' = [policy EXCEPT !.curTick = @ + 1]
    /\ UNCHANGED <<policyCall, predictor>>

PolicyNext ==
    \/ PolicyTouch \/ PolicyTouchConst \/ PolicyReset \/ PolicyResetConst
    \/ PolicyInvalidate \/ PolicyGetVictim \/ PolicyTick

SpecPolicy == PolicyInit /\ [][PolicyNext]_vars

-----------------------------------------------------------------------------
(* What the claims speak of, stated over the log of accesses rather than   *)
(* over the buffer: log[q] is the q-th access inserted since construction  *)
(* or the last reset, with the slot insert returned for it.                *)

Written == 1 .. Len(log)

\* the q-th access is still in the buffer: no later access was written to its slot
Live(q) == q \in Written /\ \A j \in (q + 1) .. Len(log) : log[j].slot # log[q].slot

\* the q-th access has a key of this kind
HasKey(q, key) == IF key = PC THEN usePC /\ log[q].hasPC ELSE TRUE

\* its value: the instruction pointer, or the page index address / page size
KeyValue(q, key) == IF key = PC THEN log[q].pc ELSE log[q].addr \div pageBytes

SameKey(q, r, key) ==
    HasKey(q, key) /\ HasKey(r, key) /\ KeyValue(q, key) = KeyValue(r, key)

\* slot s holds the q-th access
Holds(s, q) ==
    /\ Live(q)
    /\ log[q].slot = s
    /\ history[s].seq = log[q].seq
    /\ history[s].addr = log[q].addr

\* the accesses slot s may hold (at most one)
HeldBy(s) == {q \in Written : Holds(s, q)}

IsBuild == lastCall.op = "buildPattern"
IsInsert == lastCall.op = "insert"
Wrapped == Len(log) > historySize

\* the live accesses older than q that share its key of this kind
LiveOlder(q, key) == {r \in 1 .. (q - 1) : Live(r) /\ SameKey(r, q, key)}

\* all the accesses older than q that share its key of this kind
Older(q, key) == {r \in 1 .. (q - 1) : SameKey(r, q, key)}

-----------------------------------------------------------------------------
(* C1: every link buildPattern follows goes to a slot that still holds the *)
(* sequence number stamped in the link; each delta it returns is the       *)
(* address difference of two accesses that are both still in the buffer    *)
(* and were consecutive accesses for the same key value, the older written *)
(* before the link was made.                                               *)

C1_StepOk(e, p, key, d) ==
    /\ history[e].links[key].prev = p
    /\ history[e].links[key].prevSeq = history[p].seq
    /\ \E qe \in HeldBy(e), qp \in HeldBy(p) :
        /\ qp < qe
        /\ SameKey(qp, qe, key)
        /\ \A j \in (qp + 1) .. (qe - 1) : ~SameKey(j, qe, key)
        /\ d = log[qe].addr - log[qp].addr

C1_FollowsOnlyFreshLinks ==
    IsBuild =>
        /\ Len(lastCall.visited) = Len(lastCall.deltas) + (IF lastCall.visited = << >> THEN 0 ELSE 1)
        /\ \A i \in 1 .. Len(lastCall.deltas) :
              C1_StepOk(lastCall.visited[i], lastCall.visited[i + 1], lastCall.key,
                        lastCall.deltas[i])

\* after wraparound, a walk that returned a delta and stopped at a stale link
C1_Witness ==
    /\ IsBuild /\ Wrapped /\ lastCall.ret
    /\ LET last == lastCall.visited[Len(lastCall.visited)]
           link == history[last].links[lastCall.key]
       IN  /\ Len(lastCall.deltas) < patternLength
           /\ link.prev >= 0
           /\ history[link.prev].seq # link.prevSeq

-----------------------------------------------------------------------------
(* C2: every mapping V -> s of the index of kind K points to a slot that   *)
(* holds an access whose link of kind K is valid with key value V, and     *)
(* that access' own key of kind K is V: no mapping refers to an evicted    *)
(* entry.                                                                  *)

C2_IndexPointsToLiveKey ==
    \A key \in CorrelationKey : \A v \in DOMAIN lastIndex[key] :
        LET s == lastIndex[key][v]
        IN  /\ s \in DOMAIN history
            /\ history[s].links[key].keyValid
            /\ history[s].links[key].keyValue = v
            /\ \E q \in HeldBy(s) : HasKey(q, key) /\ KeyValue(q, key) = v

\* an insert has evicted the only access with some key value: its mapping is gone
C2_Witness ==
    /\ IsInsert /\ Wrapped
    /\ \E key \in CorrelationKey : \E q \in Written :
        /\ ~Live(q) /\ HasKey(q, key)
        /\ KeyValue(q, key) \notin DOMAIN lastIndex[key]

-----------------------------------------------------------------------------
(* C3: for each key kind K and key value V the index has at most one       *)
(* mapping; an insert of an access whose kind-K key is V leaves V mapped   *)
(* to the slot just written and the new link's predecessor is the slot V   *)
(* was mapped to; so the index maps V to the live access with the greatest *)
(* sequence number among those with key V, and has no mapping for V when   *)
(* no live access has that key.                                            *)

\* the live accesses whose key of this kind is v
LiveWithKey(key, v) == {q \in Written : Live(q) /\ HasKey(q, key) /\ KeyValue(q, key) = v}

Newest(S) == CHOOSE q \in S : \A r \in S : r <= q

C3_IndexIsNewestLive ==
    \A key \in CorrelationKey :
        /\ DOMAIN lastIndex[key] =
              {KeyValue(q, key) : q \in {r \in Written : Live(r) /\ HasKey(r, key)}}
        /\ \A v \in DOMAIN lastIndex[key] :
              HeldBy(lastIndex[key][v]) = {Newest(LiveWithKey(key, v))}

\* the last call was an insert that recorded an access
Inserted == IsInsert /\ lastCall.ret >= 0

\* the claim as written: the predecessor is the slot V was mapped to before the insert
C3_Original ==
    /\ C3_IndexIsNewestLive
    /\ Inserted =>
        \A key \in CorrelationKey :
            HasKey(Len(log), key) =>
                LET v == KeyValue(Len(log), key)
                    slot == lastCall.ret
                    was == before.lastIndex[key]
                IN  /\ v \in DOMAIN lastIndex[key]
                    /\ lastIndex[key][v] = slot
                    /\ history[slot].links[key].prev =
                          (IF v \in DOMAIN was THEN was[v] ELSE -1)

\* amended: the predecessor is the slot V was mapped to before the insert, unless
\* that slot is the one the insert overwrites; then the link has no predecessor
C3_IndexRewired ==
    /\ C3_IndexIsNewestLive
    /\ Inserted =>
        \A key \in CorrelationKey :
            HasKey(Len(log), key) =>
                LET v == KeyValue(Len(log), key)
                    slot == lastCall.ret
                    was == before.lastIndex[key]
                    linked == v \in DOMAIN was /\ was[v] # slot
                IN  /\ v \in DOMAIN lastIndex[key]
                    /\ lastIndex[key][v] = slot
                    /\ history[slot].links[key].prev = (IF linked THEN was[v] ELSE -1)

\* an insert whose key value was mapped to the very slot it overwrote: the access
\* before it with that key sat in the same slot, and the new link has no predecessor
C3_Witness ==
    /\ Inserted /\ Wrapped
    /\ \E key \in CorrelationKey :
        LET q == Len(log)
        IN  /\ HasKey(q, key)
            /\ KeyValue(q, key) \in DOMAIN before.lastIndex[key]
            /\ before.lastIndex[key][KeyValue(q, key)] = lastCall.ret
            /\ history[log[q].slot].links[key].prev = -1
            /\ lastIndex[key][KeyValue(q, key)] = log[q].slot

-----------------------------------------------------------------------------
(* C4: between two resets each insert assigns a sequence number greater    *)
(* than every one assigned before; live entries have pairwise distinct     *)
(* sequence numbers, the slot written last holds the greatest; nothing but *)
(* reset lowers the sequence counter.                                      *)

C4_SequenceIncreases ==
    /\ \A i \in Written, j \in Written : i < j => log[i].seq < log[j].seq
    /\ \A q \in Written : log[q].seq < sequenceCounter
    /\ \A s \in DOMAIN history, t \in DOMAIN history :
          (s # t /\ history[s].seq # 0) => history[s].seq # history[t].seq
    /\ log # << >> =>
          LET s == log[Len(log)].slot
          IN  /\ history[s].seq = log[Len(log)].seq
              /\ \A t \in DOMAIN history : t # s => history[t].seq < history[s].seq
    /\ lastCall.op \notin {"reset", "construct"} =>
          sequenceCounter >= before.sequenceCounter
    /\ Inserted =>
          /\ history[lastCall.ret].seq = before.sequenceCounter
          /\ sequenceCounter > before.sequenceCounter
          /\ \A t \in DOMAIN history : before.history[t].seq < before.sequenceCounter

\* an insert into a reused slot: the buffer holds only numbers assigned after the wrap began
C4_Witness ==
    /\ Inserted /\ Wrapped
    /\ history[lastCall.ret].seq = Len(log)
    /\ history[lastCall.ret].seq > historySize

-----------------------------------------------------------------------------
(* C5: buildPattern returns at most patternLength deltas, at most as many  *)
(* as there are live accesses older than the start access with its key (the*)
(* live, non-stale links of its chain), and so at most capacity - 1.       *)

\* the number of live links on the chain from slot index
LiveLinks(index, key) ==
    IF index \in DOMAIN history /\ HeldBy(index) # {}
    THEN LET q == CHOOSE r \in HeldBy(index) : TRUE
         IN  IF HasKey(q, key) THEN Cardinality(LiveOlder(q, key)) ELSE 0
    ELSE 0

C5_PatternLengthBounded ==
    IsBuild =>
        /\ Len(lastCall.deltas) <= patternLength
        /\ Len(lastCall.deltas) <= LiveLinks(lastCall.index, lastCall.key)
        /\ Len(lastCall.deltas) <= historySize - 1

\* after wraparound: a chain whose older accesses were partly overwritten, walked
\* to its last live link
C5_Witness ==
    /\ IsBuild /\ Wrapped
    /\ Len(lastCall.deltas) >= 1
    /\ Len(lastCall.deltas) = LiveLinks(lastCall.index, lastCall.key)
    /\ \E q \in HeldBy(lastCall.index) :
          Cardinality(Older(q, lastCall.key)) > Len(lastCall.deltas)

-----------------------------------------------------------------------------
(* C6: between operations a link whose validity flag is false has no       *)
(* predecessor, so the walk, which tests only the predecessor, follows     *)
(* valid links only; buildPattern fails exactly when it collected no       *)
(* delta, which is what happens from the first live access of a key value  *)
(* and from a slot index outside the buffer.                               *)

\* slot index holds no access, or one with no live older access sharing its key
FirstOfItsKey(index, key) ==
    \A q \in HeldBy(index) : ~HasKey(q, key) \/ LiveOlder(q, key) = {}

C6_InvalidLinkNotFollowed ==
    /\ \A s \in DOMAIN history, key \in CorrelationKey :
          ~history[s].links[key].keyValid => history[s].links[key].prev = -1
    /\ IsBuild =>
          /\ \A i \in 1 .. Len(lastCall.deltas) :
                history[lastCall.visited[i]].links[lastCall.key].keyValid
          /\ lastCall.ret = (lastCall.deltas # << >>)
          /\ lastCall.index \notin DOMAIN history => ~lastCall.ret
          /\ (lastCall.index \in DOMAIN history
                /\ FirstOfItsKey(lastCall.index, lastCall.key)) => ~lastCall.ret

\* after wraparound, a failed build from the first live access of a key value whose
\* older accesses were overwritten, in a buffer that also holds an invalid link
C6_Witness ==
    /\ IsBuild /\ Wrapped
    /\ lastCall.index \in DOMAIN history
    /\ ~lastCall.ret
    /\ \E q \in HeldBy(lastCall.index) :
          /\ HasKey(q, lastCall.key)
          /\ Older(q, lastCall.key) # {}
          /\ LiveOlder(q, lastCall.key) = {}
    /\ \E s \in DOMAIN history : history[s].seq # 0 /\ ~history[s].links[PC].keyValid

-----------------------------------------------------------------------------
(* C7: with instruction-pointer correlation enabled, after n+1 accesses    *)
(* (n >= 1, n+1 <= capacity) that share one instruction pointer and have   *)
(* addresses a, a+s, ..., a+n*s and nothing else since construction or     *)
(* reset, the instruction-pointer pattern built from the last slot has     *)
(* exactly min(n, patternLength) deltas, all s; for 0, 0x40, 0x80 (with    *)
(* pattern length at least 2) it is <<0x40, 0x40>>.                        *)

\* the log is one stream under one instruction pointer with a constant stride
OneStream ==
    /\ Len(log) >= 2
    /\ \A q \in Written : log[q].hasPC /\ log[q].pc = log[1].pc
    /\ \A q \in 2 .. Len(log) : log[q].addr - log[q - 1].addr = log[2].addr - log[1].addr

\* the last call built the pattern of this kind from the slot of the last insert
BuiltFromLast(key) ==
    /\ IsBuild /\ log # << >>
    /\ lastCall.key = key
    /\ lastCall.index = log[Len(log)].slot

C7_StrideFromPC ==
    (usePC /\ OneStream /\ Len(log) <= historySize /\ BuiltFromLast(PC)) =>
        LET n == Len(log) - 1
            stride == log[2].addr - log[1].addr
        IN  /\ lastCall.ret
            /\ lastCall.deltas = [i \in 1 .. Min(n, patternLength) |-> stride]
            /\ ([q \in Written |-> log[q].addr] = <<0, 64, 128>> /\ patternLength >= 2)
                  => lastCall.deltas = <<64, 64>>

\* the unit test's stream 0, 0x40, 0x80
C7_Witness ==
    /\ usePC /\ OneStream /\ BuiltFromLast(PC)
    /\ [q \in Written |-> log[q].addr] = <<0, 64, 128>>
    /\ lastCall.deltas = <<64, 64>>

-----------------------------------------------------------------------------
(* C8: unit test PageCorrelationWorksWithoutPC. With instruction-pointer   *)
(* correlation disabled, capacity 16, pattern length 4 and 64-byte pages,  *)
(* after the accesses 0x100, 0x108, 0x110 the page pattern built from the  *)
(* last slot succeeds.  As claimed it is the single delta 0x8; amended, it *)
(* is two deltas, both 0x8: the three accesses lie on one page.            *)

TestConfig ==
    /\ historySize = TestHistorySize
    /\ patternLength = TestPatternLength
    /\ pageBytes = TestPageBytes

C8_Case ==
    /\ ~usePC /\ TestConfig
    /\ [q \in Written |-> log[q].addr] = <<256, 264, 272>>
    /\ BuiltFromLast(Page)

\* the claim as written: a single delta
C8_Original == C8_Case => (lastCall.ret /\ lastCall.deltas = <<8>>)

C8_PageWithoutPC == C8_Case => (lastCall.ret /\ lastCall.deltas = <<8, 8>>)

C8_Witness == C8_Case /\ lastCall.ret /\ lastCall.deltas[1] = 8

-----------------------------------------------------------------------------
(* C9: when findPatternMatch succeeds, the delta it returns was observed   *)
(* after the key (second-to-last delta, last delta) at least as often as   *)
(* any other next delta; after one training on [64,64,64,32,32,32] the     *)
(* query [32,32] returns 32 and the query [64,64] returns 64 or 32.        *)

IsFind == lastCall.op = "findPatternMatch"

\* how often the list holds the consecutive triple k1, k2, next
TriplesIn(list, k1, k2, next) ==
    Cardinality({i \in 1 .. (Len(list) - 2) :
                    list[i] = k1 /\ list[i + 1] = k2 /\ list[i + 2] = next})

\* how often next was observed after k1, k2 in the lists trained on
RECURSIVE Observed(_, _, _, _)
Observed(lists, k1, k2, next) ==
    IF lists = << >> THEN 0
    ELSE TriplesIn(Head(lists), k1, k2, next) + Observed(Tail(lists), k1, k2, next)

\* every delta that occurs in a list trained on
SeenDeltas == UNION {{trained[i][j] : j \in 1 .. Len(trained[i])} : i \in 1 .. Len(trained)}

QueryKey == <<lastCall.chron[Len(lastCall.chron) - 1], lastCall.chron[Len(lastCall.chron)]>>

C9_PredictsMostFrequent ==
    /\ (IsFind /\ lastCall.ret) =>
          /\ Len(lastCall.predicted) = 1
          /\ Observed(trained, QueryKey[1], QueryKey[2], lastCall.predicted[1]) >= 1
          /\ \A d \in SeenDeltas :
                Observed(trained, QueryKey[1], QueryKey[2], d)
                    <= Observed(trained, QueryKey[1], QueryKey[2], lastCall.predicted[1])
    /\ (IsFind /\ trained = << <<64, 64, 64, 32, 32, 32>> >>) =>
          /\ lastCall.chron = <<32, 32>> => (lastCall.ret /\ lastCall.predicted = <<32>>)
          /\ lastCall.chron = <<64, 64>> =>
                (lastCall.ret /\ lastCall.predicted \in {<<64>>, <<32>>})

\* a successful match under a key after which two next deltas were observed, one
\* more often than the other
C9_Witness ==
    /\ IsFind /\ lastCall.ret
    /\ \E d \in SeenDeltas :
          /\ Observed(trained, QueryKey[1], QueryKey[2], d) >= 1
          /\ Observed(trained, QueryKey[1], QueryKey[2], d)
                < Observed(trained, QueryKey[1], QueryKey[2], lastCall.predicted[1])

-----------------------------------------------------------------------------
(* C10: findPatternMatch fails, with no prediction, when given fewer than  *)
(* 2 deltas or when the key (second-to-last, last) was never learned;      *)
(* otherwise it succeeds with exactly one predicted delta.  What it may    *)
(* return is what it may return for the list of the last two deltas alone. *)

Learned(k1, k2) == \E d \in SeenDeltas : Observed(trained, k1, k2, d) >= 1

-----------------------------------------------------------------------------
(* C11: updatePatternTable on a list of n deltas changes nothing when      *)
(* n < 3; otherwise, for each i from 0 to n-3, it adds exactly 1 to the    *)
(* count of next delta d[i+2] under key (d[i], d[i+1]) and exactly 1 to    *)
(* that key's total, and leaves every other count and total unchanged.     *)

IsUpdate == lastCall.op = "updatePatternTable"

\* the count of next under key in a table, 0 when it has none
CountOf(table, key, next) ==
    IF key \in DOMAIN table /\ next \in DOMAIN table[key].counts
    THEN table[key].counts[next] ELSE 0

TotalOf(table, key) == IF key \in DOMAIN table THEN table[key].total ELSE 0

\* the positions of the list at which the key k1, k2 stands before a next delta
KeyAt(list, k1, k2) == {i \in 1 .. (Len(list) - 2) : list[i] = k1 /\ list[i + 1] = k2}

\* every pair and triple the table, before or after, or the list may speak of
C11_Deltas ==
    LET inList == {lastCall.chron[i] : i \in 1 .. Len(lastCall.chron)}
        keys == DOMAIN patternTable \cup DOMAIN before.patternTable
        nexts == UNION {DOMAIN patternTable[k].counts : k \in DOMAIN patternTable}
    IN  inList \cup {k[1] : k \in keys} \cup {k[2] : k \in keys} \cup nexts

C11_LearnsEachTriple ==
    IsUpdate =>
        LET d == lastCall.chron
            was == before.patternTable
        IN  /\ Len(d) < 3 => patternTable = was
            /\ \A k1 \in C11_Deltas, k2 \in C11_Deltas :
                  /\ TotalOf(patternTable, <<k1, k2>>)
                        = TotalOf(was, <<k1, k2>>) + Cardinality(KeyAt(d, k1, k2))
                  /\ (<<k1, k2>> \in DOMAIN patternTable)
                        = (<<k1, k2>> \in DOMAIN was \/ KeyAt(d, k1, k2) # {})
                  /\ \A next \in C11_Deltas :
                        CountOf(patternTable, <<k1, k2>>, next)
                            = CountOf(was, <<k1, k2>>, next) + TriplesIn(d, k1, k2, next)

\* an update of a table that an earlier update filled: a count learned then is raised
C11_Witness ==
    /\ IsUpdate
    /\ Len(trained) >= 2
    /\ \E k1 \in TrainDeltas, k2 \in TrainDeltas, next \in TrainDeltas :
          /\ CountOf(before.patternTable, <<k1, k2>>, next) >= 1
          /\ TriplesIn(lastCall.chron, k1, k2, next) = 1
          /\ CountOf(patternTable, <<k1, k2>>, next)
                = CountOf(before.patternTable, <<k1, k2>>, next) + 1

-----------------------------------------------------------------------------
(* C12: fallbackPattern returns exactly one prediction, the last delta of  *)
(* the list, when that delta is nonzero, and none when the last delta is   *)
(* zero or the list is empty, whatever the pattern table holds; for        *)
(* [16, 8, 4] it predicts 4.                                               *)

IsFallback == lastCall.op = "fallbackPattern"

C12_FallbackIsLastDelta ==
    IsFallback =>
        LET d == lastCall.chron
        IN  /\ (d # << >> /\ d[Len(d)] # 0) => lastCall.predicted = <<d[Len(d)]>>
            /\ (d = << >> \/ d[Len(d)] = 0) => lastCall.predicted = << >>
            /\ d = <<16, 8, 4>> => lastCall.predicted = <<4>>

\* the unit test's list, given to a predictor whose table has learned something
C12_Witness ==
    /\ IsFallback
    /\ patternTable # EmptyMap
    /\ lastCall.chron = <<16, 8, 4>>
    /\ lastCall.predicted = <<4>>

-----------------------------------------------------------------------------
(* C14: after reset the predictor is a freshly constructed one with the    *)
(* same configuration, whatever was inserted or learned before: every      *)
(* member holds what the constructor gives it for the arguments this       *)
(* predictor was constructed with, so every later call returns what it     *)
(* returns on a fresh predictor; a second reset leaves the same state.     *)

IsReset == lastCall.op = "reset"

C14_ResetIsFresh ==
    IsReset =>
        /\ Constructed(configured.history_size, configured.pattern_length,
                       configured.degree, configured.use_pc, configured.page_bytes,
                       configured.confidence_threshold)
        /\ log = << >> /\ trained = << >>

\* a reset of a predictor whose buffer had wrapped and whose table had learned
C14_Witness == IsReset /\ lastCall.wrapped /\ lastCall.learned

-----------------------------------------------------------------------------
(* C20: between resets the pattern table only grows: whatever the call,    *)
(* insert, buildPattern, updatePatternTable, findPatternMatch or           *)
(* fallbackPattern, every key the table had is still there and no count    *)
(* and no total is lower than it was; only reset empties the table.        *)

\* table now has all of table was, with counts and totals at least as high
GrownFrom(was, now) ==
    \A key \in DOMAIN was :
        /\ key \in DOMAIN now
        /\ now[key].total >= was[key].total
        /\ \A next \in DOMAIN was[key].counts :
              /\ next \in DOMAIN now[key].counts
              /\ now[key].counts[next] >= was[key].counts[next]

-----------------------------------------------------------------------------
(* C15: with a history capacity configured as zero the predictor is        *)
(* disabled: empty() reports true and insert returns the sentinel -1       *)
(* without recording the access; insert returns the sentinel in no other   *)
(* configuration.                                                          *)

C15_ZeroCapacityDisabled ==
    IsInsert =>
        /\ configured.history_size = 0 =>
              /\ empty
              /\ lastCall.ret = -1
              /\ log = << >>
              /\ history = before.history /\ lastIndex = before.lastIndex
        /\ lastCall.ret = -1 => configured.history_size = 0

-----------------------------------------------------------------------------
(* C13: every candidate address calculatePrefetch hands to the issue queue *)
(* lies on the same page as the block address of the access that triggered *)
(* it, also when adding the predicted delta to the block address wraps     *)
(* around the address space.                                               *)

IsCycle == lastCall.op = "calculatePrefetch"

\* the page an address lies on, by the page size the prefetcher was configured with
PageOf(addr) == addr \div configured.page_bytes

\* the block address plus the predicted delta, as integers
ExactCandidate == lastCall.block_addr + lastCall.predicted[1]

C13_CandidatesOnSamePage ==
    IsCycle =>
        /\ lastCall.block_addr \in 0 .. (AddrSpace - 1)
        /\ lastCall.block_addr % BlkSize = 0
        /\ lastCall.pfi.addr - lastCall.block_addr \in 0 .. (BlkSize - 1)
        /\ \A i \in 1 .. Len(lastCall.addresses) :
              /\ lastCall.addresses[i] \in 0 .. (AddrSpace - 1)
              /\ PageOf(lastCall.addresses[i]) = PageOf(lastCall.block_addr)

\* a candidate was emitted although the signed addition that computed it overflowed
C13_Witness ==
    /\ IsCycle
    /\ lastCall.predicted # << >>
    /\ ToSigned(lastCall.block_addr) + lastCall.predicted[1] \notin SignedRange
    /\ lastCall.addresses # << >>

\* reached as well: the sum passes the top of the address space, and the bottom
C13_WrapsAtTop ==
    IsCycle /\ lastCall.predicted # << >> /\ ExactCandidate >= AddrSpace

C13_WrapsAtBottom ==
    IsCycle /\ lastCall.predicted # << >> /\ ExactCandidate < 0

-----------------------------------------------------------------------------
(* C16: with a history capacity configured as zero, calculatePrefetch      *)
(* never emits a candidate address, whatever the accesses.                 *)

C16_ZeroCapacityEmitsNothing ==
    (IsCycle /\ configured.history_size = 0) => lastCall.addresses = << >>

\* the second access of a stride under one instruction pointer, on one page: recorded,
\* and nothing emitted
C16_Witness ==
    /\ IsCycle /\ configured.history_size = 0
    /\ lastCall.idx = 0
    /\ Len(log) >= 2
    /\ log[Len(log)].hasPC /\ log[Len(log) - 1].hasPC
    /\ log[Len(log) - 1].addr = 0 /\ log[Len(log)].addr = 2
    /\ lastCall.addresses = << >>

-----------------------------------------------------------------------------
(* C17: in a predict cycle the instruction-pointer chain is tried first    *)
(* and the page chain is used only when the instruction-pointer build      *)
(* yields no delta: when the instruction-pointer chain has a delta, the    *)
(* deltas learned from and predicted from are exactly that chain's, even   *)
(* when the page chain from the same slot is longer.                       *)

\* the chain of the q-th access for a key kind, read off the log: the differences
\* between consecutive accesses with its key value, most recent first, as far as the
\* older access is still in the buffer and at most n of them
RECURSIVE ChainOf(_, _, _)
ChainOf(q, key, n) ==
    IF n = 0 \/ ~HasKey(q, key) \/ Older(q, key) = {}
    THEN << >>
    ELSE LET r == Newest(Older(q, key))
         IN  IF ~Live(r)
             THEN << >>
             ELSE <<ToSigned(log[q].addr) - ToSigned(log[r].addr)>>
                      \o ChainOf(r, key, n - 1)

\* the call recorded its access
Recorded == IsCycle /\ lastCall.idx >= 0

C17_PCChainFirst ==
    Recorded =>
        LET pcChain == ChainOf(Len(log), PC, patternLength)
            pageChain == ChainOf(Len(log), Page, patternLength)
            used == IF pcChain # << >> THEN pcChain ELSE pageChain
        IN  /\ lastCall.byPC = (pcChain # << >>)
            /\ lastCall.hasPattern = (used # << >>)
            /\ lastCall.deltas = used
            /\ lastCall.chronological = Reverse(used)
            /\ used # << >> => trained[Len(trained)] = Reverse(used)

\* the instruction-pointer chain is used although the page chain is longer
C17_Witness ==
    /\ Recorded
    /\ lastCall.deltas = ChainOf(Len(log), PC, patternLength)
    /\ lastCall.deltas # << >>
    /\ Len(ChainOf(Len(log), Page, patternLength)) > Len(lastCall.deltas)

-----------------------------------------------------------------------------
(* C18: when pattern building fails for both key kinds, the cycle emits no *)
(* candidate and leaves the pattern table unchanged, while the access      *)
(* remains recorded in the history buffer and the correlation indices.     *)

\* neither chain of the access just recorded has a delta
C18_BothFail ==
    /\ Recorded
    /\ ChainOf(Len(log), PC, patternLength) = << >>
    /\ ChainOf(Len(log), Page, patternLength) = << >>

C18_NoPatternNoPrediction ==
    C18_BothFail =>
        LET slot == lastCall.idx
            access == log[Len(log)]
        IN  /\ ~lastCall.hasPattern
            /\ lastCall.addresses = << >>
            /\ patternTable = before.patternTable
            /\ access.addr = lastCall.block_addr /\ access.slot = slot
            /\ history[slot].addr = lastCall.block_addr
            /\ history[slot].seq = before.sequenceCounter
            /\ PageOf(lastCall.block_addr) \in DOMAIN lastIndex[Page]
            /\ lastIndex[Page][PageOf(lastCall.block_addr)] = slot
            /\ lastCall.pfi.hasPC =>
                  /\ lastCall.pfi.pc \in DOMAIN lastIndex[PC]
                  /\ lastIndex[PC][lastCall.pfi.pc] = slot

\* both builds fail in a predictor that has learned patterns: the table is kept
C18_Witness ==
    /\ C18_BothFail
    /\ patternTable # EmptyMap
    /\ lastCall.addresses = << >>
    /\ lastIndex[Page][PageOf(lastCall.block_addr)] = lastCall.idx

-----------------------------------------------------------------------------
(* C19: in a predict cycle with a non-empty chain, when the pattern-table  *)
(* lookup misses, the prediction is the chain's most recent delta, and no  *)
(* candidate is emitted if that delta is zero; the fallback is used only   *)
(* on a miss: when the lookup hits, the prediction is the table's.         *)

\* the cycle built a chain
C19_Case == IsCycle /\ lastCall.hasPattern

\* the key the cycle looks up: the chain's two most recent deltas, older first
C19_Key == <<lastCall.deltas[2], lastCall.deltas[1]>>

\* the lookup finds the key in the table, which holds the cycle's own update
C19_Hits == Len(lastCall.deltas) >= 2 /\ C19_Key \in DOMAIN patternTable

C19_FallbackOnlyOnMiss ==
    C19_Case =>
        LET recent == lastCall.deltas[1]
        IN  /\ lastCall.hit = C19_Hits
            /\ ~C19_Hits =>
                  /\ lastCall.predicted = (IF recent # 0 THEN <<recent>> ELSE << >>)
                  /\ recent = 0 => lastCall.addresses = << >>
            /\ C19_Hits =>
                  /\ Len(lastCall.predicted) = 1
                  /\ CountOf(patternTable, C19_Key, lastCall.predicted[1]) >= 1
                  /\ \A next \in DOMAIN patternTable[C19_Key].counts :
                        CountOf(patternTable, C19_Key, next)
                            <= CountOf(patternTable, C19_Key, lastCall.predicted[1])

\* a hit whose prediction is not the chain's most recent delta
C19_Witness ==
    /\ C19_Case /\ C19_Hits
    /\ lastCall.predicted # <<lastCall.deltas[1]>>
    /\ lastCall.deltas[1] # 0
    /\ lastCall.addresses # << >>

\* reached as well: a miss whose most recent delta is zero, and one whose delta is not
C19_MissZero == C19_Case /\ ~C19_Hits /\ lastCall.deltas[1] = 0

C19_MissNonzero ==
    C19_Case /\ ~C19_Hits /\ lastCall.deltas[1] # 0 /\ lastCall.addresses # << >>

-----------------------------------------------------------------------------
(* C21: construction clamps the configuration: capacity, pattern length,   *)
(* degree and page size are at least 1 (and what was given, when that is   *)
(* at least 1 and fits an unsigned), the confidence threshold is at most   *)
(* 100; so the page key's division and the write head's modulo never have  *)
(* a zero divisor.                                                         *)

C21_ConfigClamped ==
    /\ historySize >= 1 /\ patternLength >= 1 /\ degree >= 1 /\ pageBytes >= 1
    /\ confidenceThreshold <= 100
    /\ configured.history_size >= 1 => historySize = configured.history_size
    /\ configured.pattern_length >= 1 => patternLength = configured.pattern_length
    /\ configured.degree >= 1 => degree = configured.degree
    /\ configured.page_bytes \in 1 .. (UnsignedSpace - 1) => pageBytes = configured.page_bytes
    /\ configured.confidence_threshold <= 100 =>
          confidenceThreshold = configured.confidence_threshold
    /\ DOMAIN history = 0 .. (historySize - 1)
    /\ head \in 0 .. (historySize - 1)
    /\ IsInsert =>
          /\ lastCall.ret = before.head
          /\ head = (before.head + 1) % historySize
          /\ lastIndex[Page][log[Len(log)].addr \div pageBytes] = lastCall.ret

\* inserts that wrapped the write head of a predictor constructed with zero for every
\* size and a threshold above 100
C21_Witness ==
    /\ IsInsert /\ Len(log) >= 2
    /\ configured.history_size = 0 /\ configured.pattern_length = 0
    /\ configured.degree = 0 /\ configured.page_bytes = 0
    /\ configured.confidence_threshold > 100
    /\ head = 0 /\ filled

\* reached as well: a page size that is zero only once cast to unsigned
C21_PageTruncated ==
    IsInsert /\ configured.page_bytes = UnsignedSpace /\ pageBytes = 1

-----------------------------------------------------------------------------
(* C22: invalidate(entry) makes the entry the next victim: getVictim over  *)
(* candidates that include an invalidated entry (one not reset or touched  *)
(* since) returns an invalidated entry, whatever the other candidates'     *)
(* history.                                                                *)

IsGetVictim == policyCall.call.op = "getVictim"

\* the candidates of the last getVictim that are invalidated
InvalidatedCandidates ==
    {policyCall.call.candidates[i] : i \in 1 .. Len(policyCall.call.candidates)}
        \cap policyCall.invalidated

C22_InvalidatedIsVictim ==
    (IsGetVictim /\ InvalidatedCandidates # {}) =>
        policyCall.call.victim \in policyCall.invalidated

\* reached: the victim is an entry in use (reset with a packet since it was last
\* invalidated) although an invalidated entry is the first candidate
C22_LiveEntryEvicted ==
    /\ IsGetVictim
    /\ policyCall.call.candidates[1] \in policyCall.invalidated
    /\ policyCall.call.victim \notin policyCall.invalidated
    /\ policy.entries[policyCall.call.victim].pc # 0
    /\ policy.entries[policyCall.call.candidates[1]].priority = policy.bias

-----------------------------------------------------------------------------
(* C23: within one predict cycle the pattern table is updated with the     *)
(* cycle's chain before it is queried: the table after the cycle is the    *)
(* one found plus the chain's triples, the lookup hits or misses as it     *)
(* does on that table, and a next delta that the cycle's own update makes  *)
(* the only one of greatest count under the key is the one predicted.      *)

\* the next deltas of greatest count under a key of a table
C23_Greatest(table, key) ==
    {d \in DOMAIN table[key].counts :
        \A other \in DOMAIN table[key].counts :
            table[key].counts[other] <= table[key].counts[d]}

\* every delta the tables or the chain speak of
C23_Deltas ==
    LET keys == DOMAIN patternTable
    IN  {k[1] : k \in keys} \cup {k[2] : k \in keys}
            \cup UNION {DOMAIN patternTable[k].counts : k \in keys}

C23_UpdateBeforeQuery ==
    (IsCycle /\ lastCall.hasPattern) =>
        LET chron == lastCall.chronological
            was == before.patternTable
            key == <<chron[Len(chron) - 1], chron[Len(chron)]>>
        IN  /\ \A k1 \in C23_Deltas, k2 \in C23_Deltas :
                  /\ TotalOf(patternTable, <<k1, k2>>)
                        = TotalOf(was, <<k1, k2>>) + Cardinality(KeyAt(chron, k1, k2))
                  /\ \A next \in C23_Deltas :
                        CountOf(patternTable, <<k1, k2>>, next)
                            = CountOf(was, <<k1, k2>>, next) + TriplesIn(chron, k1, k2, next)
            /\ lastCall.hit = (Len(chron) >= 2 /\ key \in DOMAIN patternTable)
            /\ lastCall.hit =>
                  /\ Len(lastCall.predicted) = 1
                  /\ lastCall.predicted[1] \in C23_Greatest(patternTable, key)

\* a cycle whose own update makes the prediction: the key is new to the table, or the
\* next delta predicted was not the only one of greatest count before
C23_Witness ==
    /\ IsCycle /\ lastCall.hit
    /\ lastCall.predicted[1] # 0
    /\ lastCall.addresses # << >>
    /\ LET chron == lastCall.chronological
           key == <<chron[Len(chron) - 1], chron[Len(chron)]>>
       IN  /\ key \in DOMAIN before.patternTable
           /\ C23_Greatest(before.patternTable, key) # {lastCall.predicted[1]}
           /\ C23_Greatest(patternTable, key) = {lastCall.predicted[1]}

\* reached as well: a hit under a key the table did not have when the cycle began
C23_NewKeyHit ==
    /\ IsCycle /\ lastCall.hit /\ lastCall.predicted[1] # 0
    /\ LET chron == lastCall.chronological
       IN  <<chron[Len(chron) - 1], chron[Len(chron)]>> \notin DOMAIN before.patternTable

-----------------------------------------------------------------------------
(* C24: an insert evicts only once the buffer has wrapped, and then removes *)
(* an index mapping only if it targeted the slot at the write head: a       *)
(* mapping of the victim's key value to a newer slot, the mappings of other *)
(* key values and the entries of the other slots are left as they were.     *)
(* (The mapping of the new access' own key value is rewired to the slot.)   *)

C24_EvictsOnlyOwnMappings ==
    Inserted =>
        LET slot == lastCall.ret
            q == Len(log)
        IN  /\ \A s \in DOMAIN history \ {slot} : history[s] = before.history[s]
            /\ \A key \in CorrelationKey :
                  /\ \A v \in DOMAIN before.lastIndex[key] :
                        \/ HasKey(q, key) /\ KeyValue(q, key) = v
                        \/ IF before.filled /\ before.lastIndex[key][v] = slot
                           THEN v \notin DOMAIN lastIndex[key]
                           ELSE /\ v \in DOMAIN lastIndex[key]
                                /\ lastIndex[key][v] = before.lastIndex[key][v]
                  /\ \A v \in DOMAIN lastIndex[key] \ DOMAIN before.lastIndex[key] :
                        HasKey(q, key) /\ KeyValue(q, key) = v
                  /\ ~before.filled => DOMAIN before.lastIndex[key] \subseteq DOMAIN lastIndex[key]

\* an insert that evicted an access whose key value was mapped to a newer slot, the new
\* access having another key value: the mapping is as it was
C24_Witness ==
    /\ Inserted /\ before.filled
    /\ \E key \in CorrelationKey :
          LET victim == before.history[lastCall.ret].links[key]
              v == victim.keyValue
          IN  /\ victim.keyValid
              /\ ~(HasKey(Len(log), key) /\ KeyValue(Len(log), key) = v)
              /\ v \in DOMAIN before.lastIndex[key]
              /\ before.lastIndex[key][v] # lastCall.ret
              /\ v \in DOMAIN lastIndex[key]
              /\ lastIndex[key][v] = before.lastIndex[key][v]
    /\ \E key \in CorrelationKey : \E v \in DOMAIN before.lastIndex[key] :
          before.lastIndex[key][v] = lastCall.ret /\ v \notin DOMAIN lastIndex[key]

-----------------------------------------------------------------------------
(* C25: when instruction-pointer correlation is disabled, or the access    *)
(* carries no instruction pointer, insert leaves the new entry with an     *)
(* invalid instruction-pointer link and adds no mapping to the             *)
(* instruction-pointer index, so a build of that kind from its slot fails; *)
(* with correlation disabled that index is empty in every state.           *)

C25_NoPCNoLink ==
    /\ ~usePC => lastIndex[PC] = EmptyMap
    /\ (Inserted /\ ~HasKey(Len(log), PC)) =>
          /\ history[lastCall.ret].links[PC] = DefaultLink
          /\ DOMAIN lastIndex[PC] \subseteq DOMAIN before.lastIndex[PC]
          /\ \A v \in DOMAIN lastIndex[PC] :
                lastIndex[PC][v] # lastCall.ret
                    /\ lastIndex[PC][v] = before.lastIndex[PC][v]
    /\ (IsBuild /\ lastCall.key = PC) =>
          \A q \in HeldBy(lastCall.index) : ~HasKey(q, PC) => ~lastCall.ret

\* with correlation enabled and the buffer wrapped: a failed build from a slot whose
\* access has no instruction pointer and overwrote one that had one
C25_Witness ==
    /\ IsBuild /\ lastCall.key = PC /\ usePC /\ Wrapped
    /\ ~lastCall.ret
    /\ \E q \in HeldBy(lastCall.index) :
          /\ ~log[q].hasPC
          /\ \E r \in 1 .. (q - 1) : log[r].slot = log[q].slot /\ log[r].hasPC
    /\ lastIndex[PC] # EmptyMap

-----------------------------------------------------------------------------
(* C26: the page key of every access in the buffer is the quotient of its  *)
(* address by the page size; a page link that the walk can follow joins    *)
(* two entries of one page index; so every delta of a page pattern is, in  *)
(* absolute value, smaller than the page size.                             *)

C26_PageKeyIsQuotient ==
    /\ \A q \in Written :
          Live(q) =>
              /\ history[log[q].slot].links[Page].keyValid
              /\ history[log[q].slot].links[Page].keyValue = log[q].addr \div pageBytes
    /\ \A s \in DOMAIN history :
          LET link == history[s].links[Page]
          IN  (link.prev >= 0 /\ history[link.prev].seq = link.prevSeq) =>
                  history[link.prev].addr \div pageBytes = history[s].addr \div pageBytes
    /\ (IsBuild /\ lastCall.key = Page) =>
          \A i \in 1 .. Len(lastCall.deltas) :
              lastCall.deltas[i] > -pageBytes /\ lastCall.deltas[i] < pageBytes

\* a page pattern with a nonzero delta, built from an access whose predecessor on its
\* page is not the access inserted just before it: that one is on another page
C26_Witness ==
    /\ IsBuild /\ lastCall.key = Page /\ lastCall.ret
    /\ lastCall.deltas[1] # 0
    /\ \E q \in HeldBy(lastCall.index) :
          /\ q >= 3
          /\ log[q - 1].addr \div pageBytes # log[q].addr \div pageBytes
          /\ Live(q - 1)

-----------------------------------------------------------------------------
(* C27: the write head is always in [0, capacity); insert returns the head *)
(* it found and leaves the head one further, modulo the capacity; the      *)
(* buffer is marked full from the capacity-th insert since construction or *)
(* reset until the next reset; so insert evicts the slot it writes exactly *)
(* when that slot already holds an entry.                                  *)

C27_HeadAndFilled ==
    /\ head \in 0 .. (historySize - 1)
    /\ head = Len(log) % historySize
    /\ filled <=> (Len(log) >= historySize)
    /\ filled <=> (history[head].seq # 0)
    /\ Inserted =>
          /\ lastCall.ret = before.head
          /\ head = (before.head + 1) % historySize
          /\ before.filled <=> (before.history[lastCall.ret].seq # 0)
          /\ before.filled =>
                \A key \in CorrelationKey :
                    \A v \in DOMAIN lastIndex[key] :
                        lastIndex[key][v] = lastCall.ret =>
                            /\ history[lastCall.ret].links[key].keyValid
                            /\ history[lastCall.ret].links[key].keyValue = v

\* an insert into a full buffer of two or more slots: it evicted the entry of slot 0,
\* whose key was indexed, and left the head at slot 1
C27_Witness ==
    /\ Inserted
    /\ historySize >= 2
    /\ before.filled /\ before.head = 0 /\ head = 1
    /\ before.history[0].seq # 0
    /\ \E v \in DOMAIN before.lastIndex[Page] :
          /\ before.lastIndex[Page][v] = 0
          /\ v # history[0].links[Page].keyValue

\* an insert into a buffer that is not yet full wrote an empty slot without evicting
C27_FirstPass ==
    /\ Inserted
    /\ ~before.filled /\ before.head >= 1
    /\ before.history[lastCall.ret].seq = 0
    /\ filled

-----------------------------------------------------------------------------
(* C28: for every key of the pattern table the running total is the number *)
(* of triples learned under the key since the last reset, modulo the range *)
(* of the counter, and so is the sum of the key's counts; a match under a  *)
(* key of the table fails exactly when the key's total is zero, which it   *)
(* is after the counter has wrapped.                                       *)

RECURSIVE C28_Sum(_)
C28_Sum(counts) ==
    IF DOMAIN counts = {} THEN 0
    ELSE LET d == CHOOSE x \in DOMAIN counts : TRUE
         IN  counts[d] + C28_Sum([x \in DOMAIN counts \ {d} |-> counts[x]])

\* how many triples the lists trained on hold under the key
C28_Learned(key) ==
    C28_Sum([d \in SeenDeltas |-> Observed(trained, key[1], key[2], d)])

\* as stated: the total is the sum of the counts and at least 1, and the match
\* under a key of the table never fails
C28_Original ==
    /\ \A key \in DOMAIN patternTable :
          /\ patternTable[key].total = C28_Sum(patternTable[key].counts)
          /\ patternTable[key].total >= 1
    /\ (IsFind /\ Len(lastCall.chron) >= 2 /\ QueryKey \in DOMAIN patternTable) =>
          lastCall.ret

C28_TotalIsSumModulo ==
    /\ \A key \in DOMAIN patternTable :
          /\ C28_Learned(key) >= 1
          /\ patternTable[key].total = C28_Learned(key) % CountSpace
          /\ patternTable[key].total = C28_Sum(patternTable[key].counts) % CountSpace
          /\ \A d \in DOMAIN patternTable[key].counts :
                patternTable[key].counts[d] =
                    Observed(trained, key[1], key[2], d) % CountSpace
          /\ C28_Learned(key) < CountSpace =>
                /\ patternTable[key].total = C28_Sum(patternTable[key].counts)
                /\ patternTable[key].total >= 1
    /\ (IsFind /\ Len(lastCall.chron) >= 2 /\ QueryKey \in DOMAIN patternTable) =>
          (lastCall.ret <=> patternTable[QueryKey].total # 0)

\* a match that fails under a key of the table: its total has wrapped to zero while
\* two of its next deltas have nonzero counts
C28_Witness ==
    /\ IsFind /\ ~lastCall.ret
    /\ QueryKey \in DOMAIN patternTable
    /\ patternTable[QueryKey].total = 0
    /\ \E d, e \in DOMAIN patternTable[QueryKey].counts :
          d # e /\ patternTable[QueryKey].counts[d] > 0 /\ patternTable[QueryKey].counts[e] > 0

-----------------------------------------------------------------------------
(* C29: every slot index held by a correlation index or as the predecessor *)
(* of a link is a slot of the buffer; no link names its own slot; the      *)
(* sequence number stamped in a link with a predecessor is smaller than    *)
(* that of the entry holding the link; so buildPattern visits slots of the *)
(* buffer only, with strictly decreasing sequence numbers, none twice.     *)

C29_Slots == 0 .. (historySize - 1)

C29_LinksWellFormed ==
    /\ DOMAIN history = C29_Slots
    /\ \A key \in CorrelationKey :
          \A v \in DOMAIN lastIndex[key] : lastIndex[key][v] \in C29_Slots
    /\ \A s \in C29_Slots :
          \A key \in CorrelationKey :
              LET link == history[s].links[key]
              IN  /\ link.prev >= -1
                  /\ link.prev >= 0 =>
                        /\ link.prev \in C29_Slots
                        /\ link.prev # s
                        /\ link.prevSeq < history[s].seq
                        /\ link.prevSeq >= 1
    /\ IsBuild =>
          /\ \A i \in 1 .. Len(lastCall.visited) :
                lastCall.visited[i] \in C29_Slots
          /\ \A i, j \in 1 .. Len(lastCall.visited) :
                i < j =>
                    /\ lastCall.visited[i] # lastCall.visited[j]
                    /\ history[lastCall.visited[j]].seq < history[lastCall.visited[i]].seq

\* a walk over three slots of a buffer that has wrapped, while some entry of the
\* buffer holds a link whose predecessor was overwritten
C29_Witness ==
    /\ IsBuild /\ lastCall.ret
    /\ Wrapped
    /\ Len(lastCall.visited) = 3
    /\ \E s \in C29_Slots, key \in CorrelationKey :
          /\ history[s].links[key].prev >= 0
          /\ history[history[s].links[key].prev].seq # history[s].links[key].prevSeq

-----------------------------------------------------------------------------
(* C30: a predict cycle whose chain has n >= 3 deltas raises the sum of    *)
(* the pattern table's totals by n - 2, whether or not its triples were    *)
(* learned by earlier cycles; so with pattern length 4 and five or more    *)
(* slots, after the k-th access (k >= 4) of a stream of constant stride s  *)
(* under one instruction pointer the total under key (s, s) is 2k - 7.     *)

C30_SumOfTotals(table) == C28_Sum([key \in DOMAIN table |-> table[key].total])

\* the accesses so far are a stream of stride s
C30_ConstantStride(s) ==
    \A i \in 2 .. Len(log) : log[i].addr - log[i - 1].addr = s

C30_CountsAgain ==
    /\ IsCycle =>
          LET n == IF lastCall.hasPattern THEN Len(lastCall.chronological) ELSE 0
          IN  C30_SumOfTotals(patternTable) =
                  C30_SumOfTotals(before.patternTable) + (IF n >= 3 THEN n - 2 ELSE 0)
    /\ \A s \in Strides :
          (historySize >= 5 /\ patternLength = 4 /\ Len(log) >= 4 /\ C30_ConstantStride(s)) =>
              /\ TotalOf(patternTable, <<s, s>>) = 2 * Len(log) - 7
              /\ DOMAIN patternTable = {<<s, s>>}

\* the seventh access of a stream of constant stride: four triples were observed, and
\* the total has counted seven
C30_Witness ==
    /\ IsCycle /\ lastCall.hasPattern
    /\ historySize >= 5 /\ patternLength = 4
    /\ Len(log) = 7
    /\ Len(lastCall.chronological) = 4
    /\ \E s \in Strides :
          /\ C30_ConstantStride(s)
          /\ TotalOf(patternTable, <<s, s>>) = 7
          /\ TotalOf(before.patternTable, <<s, s>>) = 5

-----------------------------------------------------------------------------
(* C31: on a fresh predictor of two or more slots that correlates by       *)
(* instruction pointer, fed one stream of block addresses of constant      *)
(* nonzero stride s under one instruction pointer, every predict cycle     *)
(* from the second access on predicts s, from the table once it has the    *)
(* key (s, s) and by fallback before, and emits block address + s exactly  *)
(* when that address is on the block address's page; also after the        *)
(* buffer has wrapped.                                                     *)

C31_StridePredicted ==
    \A s \in Strides :
        (IsCycle /\ usePC /\ historySize >= 2 /\ Len(log) >= 2 /\ C30_ConstantStride(s)) =>
            /\ lastCall.hasPattern /\ lastCall.byPC
            /\ \A i \in 1 .. Len(lastCall.deltas) : lastCall.deltas[i] = s
            /\ lastCall.predicted = <<s>>
            /\ lastCall.hit <=> (<<s, s>> \in DOMAIN patternTable /\ Len(lastCall.deltas) >= 2)
            /\ <<s, s>> \in DOMAIN before.patternTable => lastCall.hit
            /\ lastCall.addresses =
                  IF samePage(lastCall.block_addr, lastCall.block_addr + s)
                  THEN <<lastCall.block_addr + s>>
                  ELSE << >>

\* a cycle of a constant-stride stream after the buffer has wrapped: the table
\* predicts the stride and the candidate is emitted
C31_Witness ==
    /\ IsCycle /\ lastCall.hit
    /\ Len(log) > historySize
    /\ \E s \in Strides : C30_ConstantStride(s) /\ lastCall.predicted = <<s>>
    /\ lastCall.addresses # << >>

\* reached as well: after the wrap of a buffer of two slots the stride is predicted by
\* fallback, and the candidate is on another page and dropped
C31_FallbackDropped ==
    /\ IsCycle /\ ~lastCall.hit
    /\ historySize = 2 /\ Len(log) > historySize
    /\ \E s \in Strides : C30_ConstantStride(s) /\ lastCall.predicted = <<s>>
    /\ lastCall.addresses = << >>

-----------------------------------------------------------------------------
(* C32: buildPattern, findPatternMatch and fallbackPattern leave the       *)
(* buffer's entries, the correlation indices, the write head, the full     *)
(* flag, the sequence counter and the pattern table as they found them;    *)
(* insert leaves the pattern table as it found it; updatePatternTable      *)
(* leaves the buffer, the indices, the write head, the full flag and the   *)
(* sequence counter as it found them.                                      *)

C32_BufferKept ==
    /\ history = before.history
    /\ lastIndex = before.lastIndex
    /\ head = before.head
    /\ filled = before.filled
    /\ sequenceCounter = before.sequenceCounter

C32_Frames ==
    /\ lastCall.op \in HelperQueries => (C32_BufferKept /\ patternTable = before.patternTable)
    /\ IsInsert => patternTable = before.patternTable
    /\ IsUpdate => C32_BufferKept

\* a lookup that misses, while the buffer is full and the table holds another key
C32_Witness ==
    /\ IsFind /\ ~lastCall.ret
    /\ Len(lastCall.chron) = 2
    /\ filled
    /\ patternTable # EmptyMap

\* reached as well: an insert that overwrites a slot while the table holds a key, and
\* an update that learns a triple while the buffer holds accesses
C32_InsertCase ==
    /\ Inserted /\ before.filled
    /\ patternTable # EmptyMap

C32_UpdateCase ==
    /\ IsUpdate /\ Len(lastCall.chron) >= 3
    /\ filled /\ lastIndex[PC] # EmptyMap

-----------------------------------------------------------------------------
(* C33: a delta is the difference of the two addresses in two's            *)
(* complement: the predecessor's address plus the delta is the entry's     *)
(* address modulo the size of the address space; and the candidate of a    *)
(* predict cycle is the block address plus the predicted delta modulo the  *)
(* size of the address space.                                              *)

\* the second access of a cycle's chain: the one before the last, under the same
\* instruction pointer
C33_Chained == IsCycle /\ lastCall.hasPattern /\ lastCall.byPC /\ Len(log) = 2

C33_TwosComplement ==
    /\ C33_Chained =>
          (log[1].addr + lastCall.deltas[1]) % AddrSpace = log[2].addr
    /\ (IsCycle /\ lastCall.predicted # << >> /\ lastCall.predicted[1] # 0) =>
          LET candidate == (lastCall.block_addr + lastCall.predicted[1]) % AddrSpace
          IN  lastCall.addresses =
                  IF samePage(lastCall.block_addr, candidate) THEN <<candidate>> ELSE << >>

\* what does hold: a difference and a sum that an int64_t can hold are exact
C33_ExactInRange ==
    /\ (C33_Chained /\ Delta(log[2].addr, log[1].addr) \in SignedRange) =>
          /\ lastCall.deltas[1] = Delta(log[2].addr, log[1].addr)
          /\ (log[1].addr + lastCall.deltas[1]) % AddrSpace = log[2].addr
    /\ (IsCycle /\ lastCall.predicted # << >> /\ lastCall.predicted[1] # 0
           /\ ToSigned(lastCall.block_addr) + lastCall.predicted[1] \in SignedRange) =>
          LET candidate == (lastCall.block_addr + lastCall.predicted[1]) % AddrSpace
          IN  lastCall.addresses =
                  IF samePage(lastCall.block_addr, candidate) THEN <<candidate>> ELSE << >>

\* reached: a chain over the middle of the address space, whose difference no
\* int64_t can hold, and a delta that is not that difference in two's complement
C33_DeltaOverflowed ==
    /\ C33_Chained
    /\ Delta(log[2].addr, log[1].addr) \notin SignedRange
    /\ (log[1].addr + lastCall.deltas[1]) % AddrSpace # log[2].addr

\* reached: an exact delta whose sum with the block address no int64_t can hold, and
\* a candidate that is not that sum in two's complement
C33_SumOverflowed ==
    /\ C33_Chained
    /\ lastCall.deltas[1] = Delta(log[2].addr, log[1].addr)
    /\ lastCall.predicted # << >>
    /\ ToSigned(lastCall.block_addr) + lastCall.predicted[1] \notin SignedRange
    /\ lastCall.addresses # << >>

-----------------------------------------------------------------------------
(* C34: a touch with a packet of an entry that was reset or touched with a *)
(* packet before sets the entry's reuse distance to the value of the       *)
(* global access counter at the touch minus its value at that previous     *)
(* access, also when the previous access was the first one counted, at     *)
(* counter 0.                                                              *)

IsTouch == policyCall.call.op = "touch"

C34_ReuseDistanceCounted ==
    (IsTouch /\ policyCall.previous >= 0) =>
        policy.entries[policyCall.call.way].reuseDistance
            = policyCall.was.globalAccessCounter - policyCall.previous

\* what does hold: the reuse distance is the difference when the previous access
\* was not the first one counted
C34_CountedFromOne ==
    (IsTouch /\ policyCall.previous >= 1) =>
        policy.entries[policyCall.call.way].reuseDistance
            = policyCall.was.globalAccessCounter - policyCall.previous

\* reached: an entry reset by the first access counted and touched two accesses
\* later keeps the reuse distance 0 that reset gave it
C34_FirstAccessSkipped ==
    /\ IsTouch /\ policyCall.previous = 0
    /\ policyCall.was.globalAccessCounter = 2
    /\ policy.entries[policyCall.call.way].reuseDistance = 0

-----------------------------------------------------------------------------
(* C35: with online learning disabled no call changes a weight or the bias *)
(* and no entry of the eviction table becomes valid.  With it enabled, a   *)
(* call changes the weights only by an update that finds a valid entry of  *)
(* the eviction table for the packet's instruction pointer, and that       *)
(* update leaves the entry invalid; entries become valid in getVictim      *)
(* only: so a tracked eviction is used by at most one update.              *)

C35_Weights(p) ==
    <<p.weightPcHash, p.weightAge, p.weightAccessCount, p.weightReuseDistance, p.bias>>

\* the last call was a reset or touch whose packet's instruction pointer had a valid
\* entry in the eviction table
C35_Reused ==
    /\ policyCall.call.op \in {"touch", "reset"}
    /\ policyCall.call.pkt.hasPC
    /\ Evicted(policyCall.was, EvictIndex(policyCall.call.pkt.pc)).valid
    /\ Evicted(policyCall.was, EvictIndex(policyCall.call.pkt.pc)).pc = policyCall.call.pkt.pc

C35_LearningGated ==
    policyCall.calls >= 1 =>
        /\ policy.enableOnlineLearning = policyCall.was.enableOnlineLearning
        /\ ~policy.enableOnlineLearning =>
              /\ C35_Weights(policy) = C35_Weights(policyCall.was)
              /\ C35_Weights(policy) = <<250, 350, -300, 400, 0>>
              /\ \A index \in DOMAIN policy.evictTable : ~Evicted(policy, index).valid
        /\ policy.enableOnlineLearning =>
              /\ C35_Weights(policy) # C35_Weights(policyCall.was) => C35_Reused
              /\ C35_Reused =>
                    ~Evicted(policy, EvictIndex(policyCall.call.pkt.pc)).valid
              /\ \A index \in DOMAIN policy.evictTable :
                    (Evicted(policy, index).valid /\ ~Evicted(policyCall.was, index).valid) =>
                        IsGetVictim

\* an eviction was tracked and the next access under its instruction pointer has
\* updated the weights and left the entry invalid
C35_Witness ==
    /\ policy.enableOnlineLearning
    /\ C35_Reused
    /\ C35_Weights(policy) # C35_Weights(policyCall.was)
    /\ ~Evicted(policy, EvictIndex(policyCall.call.pkt.pc)).valid

\* reached with one call more: a second access under the instruction pointer finds
\* the entry invalid and leaves the weights as the first update left them
C35_SecondReuse ==
    /\ policy.enableOnlineLearning
    /\ policyCall.call.op \in {"touch", "reset"}
    /\ policyCall.call.pkt.hasPC
    /\ Evicted(policyCall.was, EvictIndex(policyCall.call.pkt.pc)).pc = policyCall.call.pkt.pc
    /\ ~Evicted(policyCall.was, EvictIndex(policyCall.call.pkt.pc)).valid
    /\ C35_Weights(policy) = C35_Weights(policyCall.was)
    /\ C35_Weights(policy) # <<250, 350, -300, 400, 0>>

\* reached as well: with learning disabled, a victim was chosen and nothing tracked
C35_DisabledVictim ==
    /\ ~policy.enableOnlineLearning
    /\ IsGetVictim /\ policyCall.calls >= 2
    /\ policy.entries[policyCall.call.victim].pc # 0

====
